---- MODULE Spec2Model ----
(***************************************************************************)
(* A model of grunt-config's Copyright / Generator / UserConfig subsystem. *)
(*                                                                         *)
(* JavaScript strings are modelled as sequences of text pieces (TLA+       *)
(* strings); string concatenation is \o.  A file's content is such a       *)
(* sequence in which the line terminators "\n" and "\r\n" are pieces of    *)
(* their own (text files: a carriage return only occurs as part of         *)
(* "\r\n").                                                                *)
(*                                                                         *)
(* The specifications of the module:                                       *)
(*   SpecCopyright    - src/Copyright.js on one file of the working tree   *)
(*   SpecStatement    - Copyright.generateCopyrightStatement               *)
(*   SpecDirectory    - the Copyright calls on a directory                 *)
(*   SpecConfig       - UserConfig.parseNestedJSONValue as a pure function *)
(*   SpecGenerator    - src/Generator.js getValue / register...            *)
(*   SpecGenerateFile - Generator.generateFile on a template               *)
(*   SpecRun          - getValue and generateFile on several files         *)
(*   SpecLint         - the eslint rule sort-require-statements            *)
(*   SpecAsync        - the task functions of Util.wrapAsync               *)
(***************************************************************************)
EXTENDS Integers, Sequences, FiniteSets, TLC

VARIABLES
  filePath,            \* the file of the working tree the calls are about
  fileContent,         \* its content on disk
  osEOL,               \* os.EOL of the platform
  gitInstalled,        \* shell.which( 'git' )
  gitStdout,           \* stdout of `git log --follow --format=%aI -- file | tail -1`
  CURRENT_YEAR,        \* Util.CURRENT_YEAR, read once when Util is loaded
  calendarYear,        \* the year new Date().getUTCFullYear() gives now
  exited,              \* grunt.fail.fatal ended the process
  lastCall,            \* the last Copyright call and what it did
  PACKAGE_JSON,        \* UserConfig.PACKAGE_JSON
  REPLACEMENT_VALUES,  \* Generator's REPLACEMENT_VALUES
  underscoreBound,     \* the global _ that Generator.js refers to is bound (to lodash)
  templateFile,        \* the content of the template file generateFile reads
  outputFile,          \* the output files of generateFile: whether each exists, its content
  genCall,             \* the last Generator call and what it did
  cfgInput,            \* the arguments of parseNestedJSONValue
  cfgCall,             \* the last parseNestedJSONValue call and what it did
  tree,                \* the files of the directory, in the order grunt.file.recurse visits
  treeCall,            \* the last call on a path of the directory and what it did
  program,             \* the variable declarations of the linted file, in source order
  visited,             \* how many of them ESLint has visited, one more after Program:exit
  requireStatementGroups, \* the groups the rule has recorded
  currentGroup,        \* the group the rule adds require statements to
  lastNodeAdded,       \* the require statement the rule added last
  reports,             \* the locations of the context.report calls
  asyncTasks,          \* the tasks of the run that grunt has not started yet
  asyncRun             \* the task function of Util.wrapAsync that grunt has started

vars == << filePath, fileContent, osEOL, gitInstalled, gitStdout, CURRENT_YEAR,
           calendarYear, exited,
           lastCall, PACKAGE_JSON, REPLACEMENT_VALUES, underscoreBound, templateFile,
           outputFile, genCall, cfgInput, cfgCall, tree, treeCall, program, visited,
           requireStatementGroups, currentGroup, lastNodeAdded, reports, asyncTasks,
           asyncRun >>

copyrightVars == << filePath, fileContent, osEOL, gitInstalled, gitStdout, CURRENT_YEAR,
                    calendarYear, lastCall >>
generatorVars == << REPLACEMENT_VALUES, underscoreBound, templateFile, outputFile, genCall >>
configVars    == << cfgInput, cfgCall >>
directoryVars == << tree, treeCall >>
lintVars      == << program, visited, requireStatementGroups, currentGroup, lastNodeAdded,
                    reports >>
asyncVars     == << asyncTasks, asyncRun >>

-----------------------------------------------------------------------------
(* Bounds of the model.                                                    *)

\* Number of lines of an initial file.
MaxLines == 3
\* Calendar years the clock and the git history range over.
FirstYear == 2019
LastYear == 2020

Years == FirstYear..LastYear
\* Number of parts of a template.
MaxParts == 3

-----------------------------------------------------------------------------
(* Strings.                                                                *)

RECURSIVE Flatten(_)
Flatten(ss) == IF ss = <<>> THEN <<>> ELSE Head(ss) \o Flatten(Tail(ss))

\* Index of the first piece of s that is in set T, 0 when there is none.
FirstIndexIn(s, T) ==
  IF \E i \in 1..Len(s) : s[i] \in T
  THEN CHOOSE i \in 1..Len(s) : s[i] \in T /\ \A j \in 1..(i - 1) : s[j] \notin T
  ELSE 0

\* Index of the last piece of s that is in set T, 0 when there is none.
LastIndexIn(s, T) ==
  IF \E i \in 1..Len(s) : s[i] \in T
  THEN CHOOSE i \in 1..Len(s) : s[i] \in T /\ \A j \in (i + 1)..Len(s) : s[j] \notin T
  ELSE 0

\* String.prototype.split( sep ) for a separator out of the set seps.
RECURSIVE Split(_, _)
Split(s, seps) ==
  LET i == FirstIndexIn(s, seps)
  IN  IF i = 0 THEN << s >>
      ELSE << SubSeq(s, 1, i - 1) >> \o Split(SubSeq(s, i + 1, Len(s)), seps)

\* Array.prototype.join( sep ).
RECURSIVE Join(_, _)
Join(parts, sep) ==
  IF parts = <<>> THEN <<>>
  ELSE IF Len(parts) = 1 THEN parts[1]
  ELSE parts[1] \o << sep >> \o Join(Tail(parts), sep)

\* String.prototype.toLowerCase(), piece by piece, over the pieces of the model.
\* (toLowerCase_Forgotten: the comparison made case-sensitive.)
toLowerCase_Forgotten(s) == s

ToLowerCasePiece(p) ==
  CASE p = "Copyright © "            -> "copyright © "
    [] p = ". All rights reserved."  -> ". all rights reserved."
    [] p = "Brandon Li"              -> "brandon li"
    [] p = "// COPYRIGHT 2001 ACME"  -> "// copyright 2001 acme"
    [] p = "[object Object]"         -> "[object object]"
    [] p = "Apple"                   -> "apple"
    [] p = "Art"                     -> "art"
    [] p = "Bar"                     -> "bar"
    [] OTHER                         -> p

ToLowerCaseText(s) == [ i \in 1..Len(s) |-> ToLowerCasePiece(s[i]) ]
toLowerCase(s) == ToLowerCaseText(s)

\* The lower-case pieces of the model that contain the text 'copyright'.
PiecesWithCopyright == { "copyright © ", "// copyright 2001 acme" }

\* s.indexOf( 'copyright' ) >= 0
indexOfCopyright(s) == \E i \in 1..Len(s) : s[i] \in PiecesWithCopyright

\* The decimal text of a year and parseInt( text, 10 ) of it.
YearText(y) == ToString(y)
parseInt(piece) ==
  IF \E y \in (FirstYear - 1)..(LastYear + 1) : YearText(y) = piece
  THEN CHOOSE y \in (FirstYear - 1)..(LastYear + 1) : YearText(y) = piece
  ELSE -1  \* NaN: equal to no year

\* The `in` operator on an object literal: own keys and those of Object.prototype.
ObjectPrototypeKeys == { "constructor", "toString", "valueOf", "hasOwnProperty", "__proto__" }
JsIn(key, ownKeys) == key \in ownKeys \cup ObjectPrototypeKeys

-----------------------------------------------------------------------------
(* Results of a call: a value, or the fatal error of Util.assert.          *)

Returned(v) == [ outcome |-> "returned", val |-> v, err |-> <<>> ]
Fatal(msg)  == [ outcome |-> "fatal", val |-> <<>>, err |-> msg ]

-----------------------------------------------------------------------------
(* Util.js                                                                 *)

NEWLINES == { "\n", "\r\n" }

\* path.extname( p ): from the last '.' of the basename, '' when there is none or when
\* the basename starts with it.
extname(p) ==
  LET slash == LastIndexIn(p, { "/" })
      base  == SubSeq(p, slash + 1, Len(p))
      dot   == LastIndexIn(base, { "." })
  IN  IF dot <= 1 THEN <<>> ELSE SubSeq(base, dot, Len(base))

\* String.prototype.replace( '.', '' ): removes the first '.'.
replaceFirstDot(s) ==
  LET i == FirstIndexIn(s, { "." })
  IN  IF i = 0 THEN s ELSE SubSeq(s, 1, i - 1) \o SubSeq(s, i + 1, Len(s))

getExtension(p) ==
  IF replaceFirstDot(extname(p)) # <<>> THEN replaceFirstDot(extname(p))
  ELSE replaceFirstDot(p)

\* fileContent.split( /\r?\n/ )
getFileLines(content) == Split(content, NEWLINES)

\* Util.replaceAll( str, find, replaceWith ) = str.split( find ).join( replaceWith ), for
\* a find text that is one piece.
replaceAll(str, find, replaceWith) ==
  Flatten([ i \in 1..Len(str) |-> IF str[i] = find THEN replaceWith ELSE << str[i] >> ])

\* A replaceAll that replaces what is between the first and the last piece of find, and
\* leaves these two standing.
RECURSIVE replaceAllText_InsideOnly(_, _, _)
replaceAllText_InsideOnly(str, find, replaceWith) ==
  IF Len(str) < Len(find) THEN str
  ELSE IF SubSeq(str, 1, Len(find)) = find
  THEN << Head(find) >> \o replaceWith \o << find[Len(find)] >>
       \o replaceAllText_InsideOnly(SubSeq(str, Len(find) + 1, Len(str)), find, replaceWith)
  ELSE << Head(str) >> \o replaceAllText_InsideOnly(Tail(str), find, replaceWith)

\* Util.replaceAll( str, find, replaceWith ) for a find text of several pieces: the
\* occurrences of find from left to right, none overlapping another.
RECURSIVE replaceAllText(_, _, _)
replaceAllText(str, find, replaceWith) ==
  IF Len(str) < Len(find) THEN str
  ELSE IF SubSeq(str, 1, Len(find)) = find
  THEN replaceWith \o replaceAllText(SubSeq(str, Len(find) + 1, Len(str)), find, replaceWith)
  ELSE << Head(str) >> \o replaceAllText(Tail(str), find, replaceWith)

\* string.match( new RegExp( `${ start }(.*?)${ end }`, 'gm' ) ), each match without its
\* start and end: from a start the shortest text up to an end, on one line ('.' matches
\* no line terminator); the search goes on behind a match, and behind a start that has
\* no match.  << >> when nothing matches (match gives null).
RECURSIVE innerDelimterStrings(_, _, _)
innerDelimterStrings(string, start, end) ==
  LET i    == FirstIndexIn(string, { start })
      rest == SubSeq(string, i + 1, Len(string))
      j    == FirstIndexIn(rest, { end } \cup NEWLINES)
  IN  IF i = 0 \/ j = 0 THEN <<>>
      ELSE IF rest[j] # end THEN innerDelimterStrings(rest, start, end)
      ELSE << SubSeq(rest, 1, j - 1) >>
           \o innerDelimterStrings(SubSeq(rest, j + 1, Len(rest)), start, end)

\* Util.getInnerDelimeterStrings( string, start, end ): null.map throws a TypeError when
\* nothing matches.
MapOverMatches(matches) ==
  IF matches = <<>>
  THEN [ outcome |-> "TypeError", val |-> <<>>,
         err |-> << "Cannot read property 'map' of null" >> ]
  ELSE [ outcome |-> "returned", val |-> matches, err |-> <<>> ]

getInnerDelimeterStrings(string, start, end) ==
  MapOverMatches(innerDelimterStrings(string, start, end))

-----------------------------------------------------------------------------
(* JavaScript values: undefined, null, booleans, numbers, strings, arrays, *)
(* functions and plain objects (kids: the own properties).                 *)

NoKids == [ k \in {} |-> {} ]
Undefined == [ t |-> "undefined", s |-> <<>>, kids |-> NoKids ]
Null      == [ t |-> "null", s |-> <<>>, kids |-> NoKids ]
True      == [ t |-> "boolean", s |-> << "true" >>, kids |-> NoKids ]
EmptyArray == [ t |-> "array", s |-> <<>>, kids |-> NoKids ]
Num(text) == [ t |-> "number", s |-> text, kids |-> NoKids ]
Str(text) == [ t |-> "string", s |-> text, kids |-> NoKids ]
Obj(kids) == [ t |-> "object", s |-> <<>>, kids |-> kids ]
\* A member every object inherits from Object.prototype.
Inherited(key) == [ t |-> "function", s |-> << "Object.prototype.", key >>, kids |-> NoKids ]

\* Object.prototype.hasOwnProperty.call( value, key ) and value[ key ] throw a TypeError
\* on undefined and null.
Nullish(value) == value.t \in { "undefined", "null" }

\* Object.prototype.hasOwnProperty.call( value, key ), value not nullish.  The keys of
\* the model are neither indices nor 'length', the own properties of strings and arrays.
hasOwnProperty(value, key) == value.t = "object" /\ key \in DOMAIN value.kids

\* value[ key ], value not nullish.
GetProperty(value, key) ==
  IF value.t = "object" /\ key \in DOMAIN value.kids THEN value.kids[key]
  ELSE IF key \in ObjectPrototypeKeys THEN Inherited(key)
  ELSE Undefined

\* The results of a call: a value, the fatal error of Util.assert / Util.throw
\* (grunt.fail.fatal), or a TypeError or ReferenceError thrown by the JavaScript engine.
ReturnedValue(v) == [ outcome |-> "returned", val |-> v, err |-> <<>> ]
FatalError(msg)  == [ outcome |-> "fatal", val |-> Undefined, err |-> msg ]
TypeError(msg)   == [ outcome |-> "TypeError", val |-> Undefined, err |-> msg ]
ReferenceError(msg) == [ outcome |-> "ReferenceError", val |-> Undefined, err |-> msg ]

-----------------------------------------------------------------------------
(* UserConfig.js                                                           *)

ToUpperCasePiece(p) ==
  CASE p = "author" -> "AUTHOR"
    [] p = "name"   -> "NAME"
    [] p = "email"  -> "EMAIL"
    [] p = "url"    -> "URL"
    [] OTHER        -> p

\* The subpaths.forEach loop of parseNestedJSONValue: the state ( value, error ) after the
\* segments of subpaths, or thrown = TRUE once a step threw a TypeError.
RECURSIVE Traverse(_, _)
Traverse(st, subpaths) ==
  IF subpaths = <<>> \/ st.thrown THEN st
  ELSE
    LET subpath == Head(subpaths)
    IN  IF ~st.error /\ Nullish(st.value)
        THEN [ st EXCEPT !.thrown = TRUE ]              \* hasOwnProperty.call( null, .. )
        ELSE IF ~st.error /\ ~hasOwnProperty(st.value, subpath)
        THEN Traverse([ st EXCEPT !.error = TRUE ], Tail(subpaths))
        ELSE IF Nullish(st.value)
        THEN [ st EXCEPT !.thrown = TRUE ]              \* value[ subpath ] of undefined
        ELSE Traverse([ st EXCEPT !.value = GetProperty(st.value, subpath) ], Tail(subpaths))

\* getErrorMessage( paths ) of parseNestedJSONValue; n = subpaths.length.
RECURSIVE getErrorMessage(_, _, _)
getErrorMessage(paths, valueName, n) ==
  IF Len(paths) = 1
  THEN << "  \"", paths[1], "\": ", "{{" >> \o valueName \o << "}}" >>
  ELSE << "  \"", paths[1], "\": {", "\n", "  " >>
       \o replaceAll(getErrorMessage(Tail(paths), valueName, n), "\n", << "\n", "  " >>)
       \o << "\n", "  }", IF Len(paths) = n THEN "" ELSE "," >>

\* parseNestedJSONValue without the typeof test on the value it found.
parseNestedJSONValue_NoTypeCheck(config, name, subpaths, valueName) ==
  IF name \notin { "PACKAGE_JSON", "BUILD_RC" } THEN FatalError(<< "invalid name: ", name >>)
  ELSE
    LET st == Traverse([ value |-> config, error |-> FALSE, thrown |-> FALSE ], subpaths)
        vName == IF valueName # <<>> THEN valueName
                 ELSE << ToUpperCasePiece(subpaths[Len(subpaths)]) >>
    IN  IF st.thrown THEN TypeError(<< "Cannot read property of undefined or null" >>)
        ELSE IF st.error
        THEN FatalError(<< IF name = "BUILD_RC" THEN "buildrc" ELSE "package", ".json",
                           " was not implemented correctly. It should have something like: ",
                           "\n", "{", "\n" >>
                        \o getErrorMessage(subpaths, vName, Len(subpaths))
                        \o << "\n", "  ...", "\n", "}" >>)
        ELSE ReturnedValue(st.value)

\* parseNestedJSONValue( name, subpaths, valueName ) on the configuration object config
\* (UserConfig[ name ]); valueName = << >> stands for a valueName that is not given.
parseNestedJSONValue(config, name, subpaths, valueName) ==
  IF name \notin { "PACKAGE_JSON", "BUILD_RC" } THEN FatalError(<< "invalid name: ", name >>)
  ELSE
    LET st == Traverse([ value |-> config, error |-> FALSE, thrown |-> FALSE ], subpaths)
        error == st.error \/ st.value.t \notin { "number", "string" }
        vName == IF valueName # <<>> THEN valueName
                 ELSE << ToUpperCasePiece(subpaths[Len(subpaths)]) >>
    IN  IF st.thrown THEN TypeError(<< "Cannot read property of undefined or null" >>)
        ELSE IF error
        THEN FatalError(<< IF name = "BUILD_RC" THEN "buildrc" ELSE "package", ".json",
                           " was not implemented correctly. It should have something like: ",
                           "\n", "{", "\n" >>
                        \o getErrorMessage(subpaths, vName, Len(subpaths))
                        \o << "\n", "  ...", "\n", "}" >>)
        ELSE ReturnedValue(st.value)

-----------------------------------------------------------------------------
(* Generator.js                                                            *)

\* Util.toTitleCase( str ): str.split( /-|_|\// ), each word capitalized, joined by ' '.
CapitalizePiece(p) ==
  CASE p = "grunt"  -> "Grunt"
    [] p = "config" -> "Config"
    [] p = "OTHER"  -> "Other"
    [] p = "repo"   -> "Repo"
    [] OTHER        -> p

toTitleCase(str) ==
  LET words == Split(str, { "-", "_", "/" })
  IN  Join([ i \in 1..Len(words) |->
               IF words[i] = <<>> THEN <<>>
               ELSE << CapitalizePiece(words[i][1]) >> \o Tail(words[i]) ], " ")

\* value.replace( /.git|git+/i, '' ): the first match is taken out.  The pieces of the
\* model that the expression matches (one character and 'git', or 'gi' and t's):
GitPattern == { "git", "/git", ".git" }
replaceGitPattern(str) ==
  LET i == FirstIndexIn(str, GitPattern)
  IN  IF i = 0 THEN str ELSE SubSeq(str, 1, i - 1) \o SubSeq(str, i + 1, Len(str))

\* The three kinds of entries of REPLACEMENT_STRINGS_SCHEMA.
PathEntry(path)         == [ kind |-> "path", path |-> path, parse |-> "" ]
ParseEntry(path, parse) == [ kind |-> "parse", path |-> path, parse |-> parse ]
NullEntry               == [ kind |-> "null", path |-> <<>>, parse |-> "" ]

REPLACEMENT_STRINGS_SCHEMA ==
  [ AUTHOR          |-> PathEntry(<< "author", "name" >>),
    AUTHOR_EMAIL    |-> PathEntry(<< "author", "email" >>),
    DESCRIPTION     |-> PathEntry(<< "description" >>),
    GIT_REMOTE      |-> PathEntry(<< "repository", "url" >>),
    HOMEPAGE        |-> PathEntry(<< "homepage" >>),
    ISSUES_URL      |-> PathEntry(<< "bugs", "url" >>),
    REPO_NAME       |-> PathEntry(<< "name" >>),
    VERSION         |-> PathEntry(<< "version" >>),
    LICENSE         |-> PathEntry(<< "license" >>),
    GITHUB_URL      |-> ParseEntry(<< "repository", "url" >>, "replaceGitPattern"),
    REPO_TITLE      |-> ParseEntry(<< "name" >>, "toTitleCase"),
    COPYRIGHT_YEARS |-> NullEntry,
    BUILD_HEAD      |-> NullEntry,
    BUILD_BODY      |-> NullEntry ]

SCHEMA_KEYS == DOMAIN REPLACEMENT_STRINGS_SCHEMA

\* schema.parse( value ) of a ParseEntry.  toTitleCase asserts that it is given a string;
\* a number has no replace method.
ApplyParse(parse, value) ==
  IF parse = "toTitleCase"
  THEN IF value.t = "string" THEN ReturnedValue(Str(toTitleCase(value.s)))
       ELSE FatalError(<< "invalid str: " >> \o value.s)
  ELSE IF value.t = "string" THEN ReturnedValue(Str(replaceGitPattern(value.s)))
       ELSE TypeError(<< "value.replace is not a function" >>)

\* obj[ key ] of REPLACEMENT_VALUES, key in obj.
ReplacementValue(values, key) ==
  IF key \in DOMAIN values THEN values[key] ELSE Inherited(key)

NotRegistered(replacementString) == << "{{", replacementString, "}}", " not registered." >>
WasntRegistered(replacementString) ==
  << "Tried to retrieve replacement value for ", "{{", replacementString, "}}",
     " but it wasn't registered." >>

\* The result of a getValue that did not come to UserConfig.parseNestedJSONValue:
\* traversed says whether it was called, transformed whether the parse of the schema was.
NotTraversed(r, values) ==
  [ r |-> r, values |-> values, traversed |-> FALSE, transformed |-> FALSE ]

\* getValue without its cache: the value is parsed from package.json again.
getValue_NoCache(replacementString) ==
  IF ~JsIn(replacementString, SCHEMA_KEYS)
  THEN NotTraversed(FatalError(NotRegistered(replacementString)), REPLACEMENT_VALUES)
  ELSE IF replacementString \notin SCHEMA_KEYS
  THEN NotTraversed(ReturnedValue(Inherited(replacementString)), REPLACEMENT_VALUES)
  ELSE
    LET schema == REPLACEMENT_STRINGS_SCHEMA[replacementString]
        parsed == parseNestedJSONValue(PACKAGE_JSON, "PACKAGE_JSON", schema.path,
                                       << replacementString >>)
    IN  IF schema.kind = "null"
        THEN IF replacementString \in DOMAIN REPLACEMENT_VALUES
             THEN NotTraversed(ReturnedValue(REPLACEMENT_VALUES[replacementString]),
                               REPLACEMENT_VALUES)
             ELSE NotTraversed(FatalError(WasntRegistered(replacementString)),
                               REPLACEMENT_VALUES)
        ELSE IF ~underscoreBound
        THEN NotTraversed(ReferenceError(<< "_ is not defined" >>), REPLACEMENT_VALUES)
        ELSE IF parsed.outcome # "returned"
        THEN [ r |-> parsed, values |-> REPLACEMENT_VALUES, traversed |-> TRUE,
               transformed |-> FALSE ]
        ELSE [ r |-> parsed,
               values |-> [ k \in DOMAIN REPLACEMENT_VALUES \cup { replacementString } |->
                              IF k = replacementString THEN parsed.val
                              ELSE REPLACEMENT_VALUES[k] ],
               traversed |-> TRUE, transformed |-> FALSE ]

\* getValue that stores a marker for a run-time value that is not registered.
getValue_StoresUnregistered(replacementString) ==
  IF ~JsIn(replacementString, SCHEMA_KEYS)
  THEN NotTraversed(FatalError(NotRegistered(replacementString)), REPLACEMENT_VALUES)
  ELSE IF JsIn(replacementString, DOMAIN REPLACEMENT_VALUES)
  THEN NotTraversed(ReturnedValue(ReplacementValue(REPLACEMENT_VALUES, replacementString)),
                    REPLACEMENT_VALUES)
  ELSE NotTraversed(FatalError(NotRegistered(replacementString)),
                    [ k \in DOMAIN REPLACEMENT_VALUES \cup { replacementString } |->
                        IF k = replacementString THEN Undefined ELSE REPLACEMENT_VALUES[k] ])

\* getValue that does not look into REPLACEMENT_VALUES for a value of package.json: the
\* value is traversed and parsed at every call.
getValueFrom_NoCache(cache, replacementString) ==
  IF ~JsIn(replacementString, SCHEMA_KEYS)
  THEN NotTraversed(FatalError(NotRegistered(replacementString)), cache)
  ELSE IF replacementString \notin SCHEMA_KEYS
  THEN NotTraversed(ReturnedValue(Inherited(replacementString)), cache)
  ELSE
    LET schema == REPLACEMENT_STRINGS_SCHEMA[replacementString]
        parsed == parseNestedJSONValue(PACKAGE_JSON, "PACKAGE_JSON", schema.path,
                                       << replacementString >>)
        value  == IF schema.kind = "path" \/ parsed.outcome # "returned" THEN parsed
                  ELSE ApplyParse(schema.parse, parsed.val)
    IN  IF schema.kind = "null"
        THEN IF replacementString \in DOMAIN cache
             THEN NotTraversed(ReturnedValue(cache[replacementString]), cache)
             ELSE NotTraversed(FatalError(WasntRegistered(replacementString)), cache)
        ELSE IF ~underscoreBound
        THEN NotTraversed(ReferenceError(<< "_ is not defined" >>), cache)
        ELSE IF value.outcome # "returned"
        THEN [ r |-> value, values |-> cache, traversed |-> TRUE,
               transformed |-> schema.kind = "parse" /\ parsed.outcome = "returned" ]
        ELSE [ r |-> value,
               values |-> [ k \in DOMAIN cache \cup { replacementString } |->
                              IF k = replacementString THEN value.val
                              ELSE cache[k] ],
               traversed |-> TRUE, transformed |-> schema.kind = "parse" ]

\* What a call of getValue( replacementString ) does when REPLACEMENT_VALUES is cache:
\* its result and REPLACEMENT_VALUES afterwards.  Generator.js requires no module as _ :
\* _.isArray is lodash's when a global _ is bound and a ReferenceError when it is not; a
\* null schema is falsy and _ is not evaluated for it.
getValueFrom(cache, replacementString) ==
  IF ~JsIn(replacementString, SCHEMA_KEYS)
  THEN NotTraversed(FatalError(NotRegistered(replacementString)), cache)
  ELSE IF JsIn(replacementString, DOMAIN cache)
  THEN NotTraversed(ReturnedValue(ReplacementValue(cache, replacementString)), cache)
  ELSE
    LET schema == REPLACEMENT_STRINGS_SCHEMA[replacementString]
        parsed == parseNestedJSONValue(PACKAGE_JSON, "PACKAGE_JSON", schema.path,
                                       << replacementString >>)
        value  == IF schema.kind = "path" \/ parsed.outcome # "returned" THEN parsed
                  ELSE ApplyParse(schema.parse, parsed.val)
    IN  IF schema.kind = "null"
        THEN NotTraversed(FatalError(WasntRegistered(replacementString)), cache)
        ELSE IF ~underscoreBound
        THEN NotTraversed(ReferenceError(<< "_ is not defined" >>), cache)
        ELSE IF value.outcome # "returned"
        THEN [ r |-> value, values |-> cache, traversed |-> TRUE,
               transformed |-> schema.kind = "parse" /\ parsed.outcome = "returned" ]
        ELSE [ r |-> value,
               values |-> [ k \in DOMAIN cache \cup { replacementString } |->
                              IF k = replacementString THEN value.val
                              ELSE cache[k] ],
               traversed |-> TRUE, transformed |-> schema.kind = "parse" ]

getValue(replacementString) == getValueFrom(REPLACEMENT_VALUES, replacementString)

\* registerRunTimeReplacementValue that only asks for a key of the schema.
registerRunTimeReplacementValue_AnyKey(replacementString, value) ==
  IF value.t \notin { "string", "number" }
  THEN [ r |-> FatalError(<< "invalid value: " >> \o value.s), values |-> REPLACEMENT_VALUES ]
  ELSE IF ~JsIn(replacementString, SCHEMA_KEYS)
  THEN [ r |-> FatalError(<< "replacementString ", "{{", replacementString, "}}",
                             " not registered as a run-time replacement value." >>),
         values |-> REPLACEMENT_VALUES ]
  ELSE [ r |-> ReturnedValue(Undefined),
         values |-> [ k \in DOMAIN REPLACEMENT_VALUES \cup { replacementString } |->
                        IF k = replacementString THEN value ELSE REPLACEMENT_VALUES[k] ] ]

\* registerRunTimeReplacementValue that keeps a value registered before.
registerRunTimeReplacementValue_KeepsFirst(replacementString, value) ==
  IF value.t \notin { "string", "number" }
  THEN [ r |-> FatalError(<< "invalid value: " >> \o value.s), values |-> REPLACEMENT_VALUES ]
  ELSE IF ~( /\ replacementString \in SCHEMA_KEYS
             /\ REPLACEMENT_STRINGS_SCHEMA[replacementString].kind = "null" )
  THEN [ r |-> FatalError(<< "replacementString ", "{{", replacementString, "}}",
                             " not registered as a run-time replacement value." >>),
         values |-> REPLACEMENT_VALUES ]
  ELSE [ r |-> ReturnedValue(Undefined),
         values |-> [ k \in DOMAIN REPLACEMENT_VALUES \cup { replacementString } |->
                        IF k \in DOMAIN REPLACEMENT_VALUES THEN REPLACEMENT_VALUES[k]
                        ELSE value ] ]

\* What a call of registerRunTimeReplacementValue( replacementString, value ) does.  An
\* inherited member of the schema object is in it, but is not null.
registerRunTimeReplacementValue(replacementString, value) ==
  IF value.t \notin { "string", "number" }
  THEN [ r |-> FatalError(<< "invalid value: " >> \o value.s), values |-> REPLACEMENT_VALUES ]
  ELSE IF ~( /\ JsIn(replacementString, SCHEMA_KEYS)
             /\ replacementString \in SCHEMA_KEYS
             /\ REPLACEMENT_STRINGS_SCHEMA[replacementString].kind = "null" )
  THEN [ r |-> FatalError(<< "replacementString ", "{{", replacementString, "}}",
                             " not registered as a run-time replacement value." >>),
         values |-> REPLACEMENT_VALUES ]
  ELSE [ r |-> ReturnedValue(Undefined),
         values |-> [ k \in DOMAIN REPLACEMENT_VALUES \cup { replacementString } |->
                        IF k = replacementString THEN value ELSE REPLACEMENT_VALUES[k] ] ]

-----------------------------------------------------------------------------
(* Copyright.js                                                            *)

AUTHOR == "Brandon Li"   \* GENERATOR_VALUES.AUTHOR

EXTENSION_KEYS == { "js", "css", "html", "md", "yml", "gitignore" }

\* A parser map in which every extension gets a line comment of slashes.
EXTENSION_COMMENT_PARSER_MAP_SlashesOnly(ext, copyrightContent) ==
  << "// " >> \o copyrightContent

\* EXTENSION_COMMENT_PARSER_MAP[ ext ]( copyrightContent ); an inherited member of the
\* object literal is not a parser: Object.prototype.toString() gives '[object Object]'.
EXTENSION_COMMENT_PARSER_MAP(ext, copyrightContent) ==
  CASE ext = "js"         -> << "// " >> \o copyrightContent
    [] ext = "css"        -> << "/* " >> \o copyrightContent \o << " */" >>
    [] ext \in { "html", "md" } -> << "<!-- " >> \o copyrightContent \o << " -->" >>
    [] ext \in { "yml", "gitignore" } -> << "# " >> \o copyrightContent
    [] OTHER              -> << "[object Object]" >>

\* stdout.trim().split( '-' )[ 0 ]
gitStartYear(stdout) ==
  LET trimmed == SelectSeq(stdout, LAMBDA p : p \notin NEWLINES)
  IN  Flatten(<< Split(trimmed, { "-" })[1] >>)

\* A years string that is a range also for one year.
yearsString_AlwaysRange(startYear, endYear) ==
  startYear \o << "-", YearText(endYear) >>

yearsString(startYear, endYear) ==
  IF Len(startYear) = 1 /\ parseInt(startYear[1]) = endYear
  THEN startYear
  ELSE startYear \o << "-", YearText(endYear) >>

copyrightContent(years) ==
  << "Copyright © " >> \o years \o << " ", AUTHOR, ". All rights reserved." >>

UNDEFINED == << "undefined" >>

\* grunt.file.isFile( p ): the working tree holds the one file filePath.
isFile(p) == p = filePath

\* generateCopyrightStatement without `|| Util.CURRENT_YEAR`: the start year is what git
\* printed, the empty string included.
generateCopyrightStatement_NoFallback(p) ==
  IF ~gitInstalled THEN Fatal(<< "git must be installed." >>)
  ELSE IF ~isFile(p) THEN Fatal(<< "invalid filePath: " >> \o p)
  ELSE IF Len(getExtension(p)) # 1 \/ ~JsIn(getExtension(p)[1], EXTENSION_KEYS)
    THEN Fatal(p \o << " is not supported for copyright statements." >>)
  ELSE
    Returned(EXTENSION_COMMENT_PARSER_MAP(getExtension(p)[1],
               copyrightContent(yearsString(gitStartYear(gitStdout), CURRENT_YEAR))))

\* generateCopyrightStatement( p ) for a path that is a file or not and the stdout of git.
generateCopyrightStatementOf(p, isfile, stdout) ==
  IF ~gitInstalled THEN Fatal(<< "git must be installed." >>)
  ELSE IF ~isfile THEN Fatal(<< "invalid filePath: " >> \o p)
  ELSE IF Len(getExtension(p)) # 1 \/ ~JsIn(getExtension(p)[1], EXTENSION_KEYS)
    THEN Fatal(p \o << " is not supported for copyright statements." >>)
  ELSE
    LET fromGit   == gitStartYear(stdout)
        startYear == IF fromGit # <<>> THEN fromGit ELSE << YearText(CURRENT_YEAR) >>
        endYear   == CURRENT_YEAR
    IN  Returned(EXTENSION_COMMENT_PARSER_MAP(getExtension(p)[1],
                   copyrightContent(yearsString(startYear, endYear))))

generateCopyrightStatement(p) == generateCopyrightStatementOf(p, isFile(p), gitStdout)

\* getCopyrightString( fileExtension, startYear, endYear ) of the earlier Copyright.js,
\* startYear and endYear numbers; endYear = 0 stands for no endYear too (both falsy).
getCopyrightString(fileExtension, startYear, endYear) ==
  IF ~JsIn(fileExtension, EXTENSION_KEYS)
  THEN Fatal(<< "invalid fileExtension: ", fileExtension >>)
  ELSE
    LET years == IF endYear = 0 \/ startYear = endYear
                 THEN << YearText(startYear) >>
                 ELSE << YearText(startYear), "-", YearText(endYear) >>
    IN  Returned(EXTENSION_COMMENT_PARSER_MAP(fileExtension, copyrightContent(years)))


\* updateFileCopyright without its early return: a correct first line is rewritten too.
updateFileCopyright_NoEarlyReturn(p) ==
  IF ~isFile(p)
  THEN [ r |-> Fatal(<< "invalid filePath: " >> \o p), wrote |-> FALSE, content |-> fileContent ]
  ELSE
    LET fileLines == getFileLines(fileContent)
        gen       == generateCopyrightStatement(p)
    IN  IF gen.outcome = "fatal"
        THEN [ r |-> gen, wrote |-> FALSE, content |-> fileContent ]
        ELSE IF indexOfCopyright(toLowerCase(fileLines[1]))
        THEN [ r |-> Returned(UNDEFINED), wrote |-> TRUE,
               content |-> Join(<< gen.val >> \o Tail(fileLines), osEOL) ]
        ELSE [ r |-> Returned(UNDEFINED), wrote |-> TRUE,
               content |-> Join(<< gen.val >> \o fileLines, osEOL) ]

\* updateFileCopyright that takes the first line for a copyright statement whatever it
\* says, and overwrites it.
updateFileCopyright_Overwrite(p) ==
  IF ~isFile(p)
  THEN [ r |-> Fatal(<< "invalid filePath: " >> \o p), wrote |-> FALSE, content |-> fileContent ]
  ELSE
    LET fileLines == getFileLines(fileContent)
        gen       == generateCopyrightStatement(p)
    IN  IF gen.outcome = "fatal"
        THEN [ r |-> gen, wrote |-> FALSE, content |-> fileContent ]
        ELSE IF fileLines[1] = gen.val
        THEN [ r |-> Returned(UNDEFINED), wrote |-> FALSE, content |-> fileContent ]
        ELSE [ r |-> Returned(UNDEFINED), wrote |-> TRUE,
               content |-> Join(<< gen.val >> \o Tail(fileLines), osEOL) ]

\* What a call of updateFileCopyright( p ) does: its result, whether fs.writeFileSync was
\* called, and the content of the file afterwards.
updateFileCopyrightOf(p, isfile, content, stdout) ==
  IF ~isfile
  THEN [ r |-> Fatal(<< "invalid filePath: " >> \o p), wrote |-> FALSE, content |-> content ]
  ELSE
    LET fileLines == getFileLines(content)
        gen       == generateCopyrightStatementOf(p, isfile, stdout)
        copyrightStatement == gen.val
    IN  IF gen.outcome = "fatal"
        THEN [ r |-> gen, wrote |-> FALSE, content |-> content ]
        ELSE IF fileLines[1] = copyrightStatement
        THEN [ r |-> Returned(UNDEFINED), wrote |-> FALSE, content |-> content ]
        ELSE IF indexOfCopyright(toLowerCase(fileLines[1]))
        THEN [ r |-> Returned(UNDEFINED), wrote |-> TRUE,
               content |-> Join(<< copyrightStatement >> \o Tail(fileLines), osEOL) ]
        ELSE [ r |-> Returned(UNDEFINED), wrote |-> TRUE,
               content |-> Join(<< copyrightStatement >> \o fileLines, osEOL) ]

updateFileCopyright(p) == updateFileCopyrightOf(p, isFile(p), fileContent, gitStdout)

\* checkFileCopyright that asserts whatever shouldThrow says.
checkFileCopyright_AlwaysAsserts(p, shouldThrow) ==
  IF ~isFile(p) THEN Fatal(<< "invalid filePath: " >> \o p)
  ELSE
    LET firstLine == getFileLines(fileContent)[1]
        gen       == generateCopyrightStatement(p)
    IN  IF gen.outcome = "fatal" THEN gen
        ELSE IF firstLine = gen.val THEN Returned(UNDEFINED)
        ELSE Fatal(<< "invalid copyright statement in " >> \o p \o << ":\n" >> \o firstLine
                   \o << "\n\nA correct copyright statement would be:\n" >> \o gen.val)

\* What a call of checkFileCopyright( p, shouldThrow ) does.
checkFileCopyrightOf(p, isfile, content, stdout, shouldThrow) ==
  IF ~isfile THEN Fatal(<< "invalid filePath: " >> \o p)
  ELSE
    LET firstLine == getFileLines(content)[1]
        gen       == generateCopyrightStatementOf(p, isfile, stdout)
    IN  IF gen.outcome = "fatal" THEN gen
        ELSE IF shouldThrow
        THEN IF firstLine = gen.val THEN Returned(UNDEFINED)
             ELSE Fatal(<< "invalid copyright statement in " >> \o p \o << ":\n" >> \o firstLine
                        \o << "\n\nA correct copyright statement would be:\n" >> \o gen.val)
        ELSE Returned(IF firstLine = gen.val THEN << "true" >> ELSE << "false" >>)

checkFileCopyright(p, shouldThrow) ==
  checkFileCopyrightOf(p, isFile(p), fileContent, gitStdout, shouldThrow)

NoCall == [ op |-> "none", path |-> <<>>, shouldThrow |-> FALSE, outcome |-> "none",
            val |-> <<>>, err |-> <<>>, wrote |-> FALSE, before |-> <<>>,
            prevOp |-> "none", prevOutcome |-> "none", year |-> 0, args |-> <<>> ]

MissingPath == << "missing", ".", "js" >>

UpdateFileCopyright(p) ==
  /\ ~exited
  /\ LET u == updateFileCopyright(p)
     IN  /\ fileContent' = u.content
         /\ exited' = (u.r.outcome = "fatal")
         /\ lastCall' = [ op |-> "updateFileCopyright", path |-> p, shouldThrow |-> FALSE,
                          outcome |-> u.r.outcome, val |-> u.r.val, err |-> u.r.err,
                          wrote |-> u.wrote, before |-> fileContent,
                          prevOp |-> lastCall.op, prevOutcome |-> lastCall.outcome,
                          year |-> calendarYear, args |-> <<>> ]
  /\ UNCHANGED << filePath, osEOL, gitInstalled, gitStdout, CURRENT_YEAR, calendarYear >>
  /\ UNCHANGED << PACKAGE_JSON, generatorVars, configVars, directoryVars,
                  lintVars, asyncVars >>

CheckFileCopyright(p, shouldThrow) ==
  /\ ~exited
  /\ LET c == checkFileCopyright(p, shouldThrow)
     IN  /\ exited' = (c.outcome = "fatal")
         /\ lastCall' = [ op |-> "checkFileCopyright", path |-> p, shouldThrow |-> shouldThrow,
                          outcome |-> c.outcome, val |-> c.val, err |-> c.err,
                          wrote |-> FALSE, before |-> fileContent,
                          prevOp |-> lastCall.op, prevOutcome |-> lastCall.outcome,
                          year |-> calendarYear, args |-> <<>> ]
  /\ UNCHANGED << filePath, fileContent, osEOL, gitInstalled, gitStdout, CURRENT_YEAR,
                  calendarYear >>
  /\ UNCHANGED << PACKAGE_JSON, generatorVars, configVars, directoryVars,
                  lintVars, asyncVars >>

GenerateCopyrightStatement(p) ==
  /\ ~exited
  /\ LET g == generateCopyrightStatement(p)
     IN  /\ exited' = (g.outcome = "fatal")
         /\ lastCall' = [ op |-> "generateCopyrightStatement", path |-> p,
                          shouldThrow |-> FALSE,
                          outcome |-> g.outcome, val |-> g.val, err |-> g.err,
                          wrote |-> FALSE, before |-> fileContent,
                          prevOp |-> lastCall.op, prevOutcome |-> lastCall.outcome,
                          year |-> calendarYear, args |-> <<>> ]
  /\ UNCHANGED << filePath, fileContent, osEOL, gitInstalled, gitStdout, CURRENT_YEAR,
                  calendarYear >>
  /\ UNCHANGED << PACKAGE_JSON, generatorVars, configVars, directoryVars,
                  lintVars, asyncVars >>

GetCopyrightString(fileExtension, startYear, endYear) ==
  /\ ~exited
  /\ LET g == getCopyrightString(fileExtension, startYear, endYear)
     IN  /\ exited' = (g.outcome = "fatal")
         /\ lastCall' = [ op |-> "getCopyrightString", path |-> << fileExtension >>,
                          shouldThrow |-> FALSE,
                          outcome |-> g.outcome, val |-> g.val, err |-> g.err,
                          wrote |-> FALSE, before |-> fileContent,
                          prevOp |-> lastCall.op, prevOutcome |-> lastCall.outcome,
                          year |-> calendarYear, args |-> << startYear, endYear >> ]
  /\ UNCHANGED << filePath, fileContent, osEOL, gitInstalled, gitStdout, CURRENT_YEAR,
                  calendarYear >>
  /\ UNCHANGED << PACKAGE_JSON, generatorVars, configVars, directoryVars,
                  lintVars, asyncVars >>

\* The process is running when the year ends.
NewYear ==
  /\ ~exited
  /\ calendarYear < LastYear
  /\ calendarYear' = calendarYear + 1
  /\ UNCHANGED << filePath, fileContent, osEOL, gitInstalled, gitStdout, CURRENT_YEAR,
                  lastCall, exited >>
  /\ UNCHANGED << PACKAGE_JSON, generatorVars, configVars, directoryVars,
                  lintVars, asyncVars >>

-----------------------------------------------------------------------------
(* The working tree the Copyright calls run in.                            *)

FILES == { << "src", "/", "Util", ".", "js" >>,
           << "style", ".", "css" >>,
           << "notes", ".", "txt" >>,
           << "dump", ".", "toString" >> }

\* `git log --follow --format=%aI -- file | tail -1`: nothing for a file that is not
\* checked in (or when git fails: the error goes to stderr), else the author date of
\* the first commit.
GitOutputs == { <<>> } \cup { << YearText(y), "-", "03-05T10:00:00+01:00", "\n" >> : y \in Years }

\* A statement of the right form for the file, with years of long ago.
StaleStatement(p) ==
  EXTENSION_COMMENT_PARSER_MAP(
    IF Len(getExtension(p)) = 1 /\ getExtension(p)[1] \in EXTENSION_KEYS
    THEN getExtension(p)[1] ELSE "js",
    copyrightContent(<< "2001" >>))

\* The first line of an initial file: the correct statement, a stale one, one followed by
\* more text, an upper-case copyright notice, another comment, or nothing.
FirstLineTexts(p) ==
  (IF generateCopyrightStatement(p).outcome = "returned"
   THEN { generateCopyrightStatement(p).val,
          generateCopyrightStatement(p).val \o << " // eslint-disable-line" >> }
   ELSE {})
  \cup { StaleStatement(p), << "// COPYRIGHT 2001 ACME" >>, << "// some other comment" >>, <<>> }

\* The lines after the first.
OtherLineTexts == { << "'use strict';" >>, <<>> }

\* lines[1] terminators[1] lines[2] ... : a text file with a terminator of its own
\* between any two lines.
RECURSIVE Interleave(_, _)
Interleave(lines, terminators) ==
  IF Len(lines) = 1 THEN lines[1]
  ELSE lines[1] \o << terminators[1] >> \o Interleave(Tail(lines), Tail(terminators))

InitialContents(p) ==
  UNION { { Interleave(<< first >> \o rest, terminators) :
              first \in FirstLineTexts(p),
              rest \in [1..(n - 1) -> OtherLineTexts],
              terminators \in [1..(n - 1) -> NEWLINES] } : n \in 1..MaxLines }

NoFile == [ exists |-> FALSE, content |-> <<>> ]

\* The paths of the files the generate tasks of the Gruntfile write.
OutputPath == << "README", ".", "md" >>
TravisPath == << ".", "travis", ".", "yml" >>
OutputPaths == { OutputPath, TravisPath }

\* No output file is there.
NoOutput == [ p \in OutputPaths |-> NoFile ]

IdleGenerator ==
  /\ REPLACEMENT_VALUES = <<>>
  /\ underscoreBound = FALSE
  /\ templateFile = <<>>
  /\ outputFile = NoOutput
  /\ genCall = "none"

IdleConfig ==
  /\ cfgInput = "none"
  /\ cfgCall = "none"

IdleDirectory ==
  /\ tree = <<>>
  /\ treeCall = "none"

IdleLint ==
  /\ program = <<>>
  /\ visited = 0
  /\ requireStatementGroups = <<>>
  /\ currentGroup = <<>>
  /\ lastNodeAdded = "none"
  /\ reports = <<>>

IdleAsync ==
  /\ asyncTasks = <<>>
  /\ asyncRun = "none"

IdleCopyright ==
  /\ filePath = <<>>
  /\ fileContent = <<>>
  /\ osEOL = "\n"
  /\ gitInstalled = FALSE
  /\ gitStdout = <<>>
  /\ CURRENT_YEAR = FirstYear
  /\ calendarYear = FirstYear
  /\ lastCall = NoCall

InitCopyright ==
  /\ filePath \in FILES
  /\ osEOL \in NEWLINES
  /\ CURRENT_YEAR \in Years
  /\ calendarYear = CURRENT_YEAR
  /\ gitInstalled \in BOOLEAN
  /\ gitStdout \in (IF gitInstalled THEN GitOutputs ELSE { <<>> })
  /\ fileContent \in InitialContents(filePath)
  /\ exited = FALSE
  /\ lastCall = NoCall
  /\ PACKAGE_JSON = Undefined
  /\ IdleGenerator
  /\ IdleConfig
  /\ IdleDirectory
  /\ IdleLint
  /\ IdleAsync

NextCopyright ==
  \/ \E p \in { filePath, MissingPath } : UpdateFileCopyright(p)
  \/ \E p \in { filePath, MissingPath }, shouldThrow \in BOOLEAN : CheckFileCopyright(p, shouldThrow)

SpecCopyright == InitCopyright /\ [][NextCopyright]_vars

-----------------------------------------------------------------------------
(* Calls that make a copyright statement, in a process that may run into   *)
(* the next year.                                                          *)

StatementFiles ==
  FILES \cup { << "index", ".", "html" >>, << "README", ".", "md" >>,
               << ".", "travis", ".", "yml" >>, << ".", "gitignore" >>,
               << "Makefile" >>, << "lib", "/", "LICENSE" >> }

InitStatement ==
  /\ filePath \in StatementFiles
  /\ osEOL = "\n"
  /\ CURRENT_YEAR \in Years
  /\ calendarYear = CURRENT_YEAR
  /\ gitInstalled \in BOOLEAN
  /\ gitStdout \in (IF gitInstalled THEN GitOutputs ELSE { <<>> })
  /\ fileContent = <<>>
  /\ exited = FALSE
  /\ lastCall = NoCall
  /\ PACKAGE_JSON = Undefined
  /\ IdleGenerator
  /\ IdleConfig
  /\ IdleDirectory
  /\ IdleLint
  /\ IdleAsync

NextStatement ==
  \/ \E p \in { filePath, MissingPath } : GenerateCopyrightStatement(p)
  \/ \E fileExtension \in { "js", "css", "md", "txt", "toString" },
        startYear \in Years, endYear \in Years \cup { 0 } :
       GetCopyrightString(fileExtension, startYear, endYear)
  \/ NewYear

SpecStatement == InitStatement /\ [][NextStatement]_vars

-----------------------------------------------------------------------------
(* Copyright.js on the files of a directory.                               *)
(*                                                                         *)
(* tree is the sequence of the files under the directory './', in the      *)
(* order in which grunt.file.recurse calls its callback for them; a file   *)
(* is a record of its path (relative to the directory), its content and    *)
(* what `git log` prints for it.                                           *)

Directory == << ".", "/" >>

\* Number of files under the directory.
MaxFiles == 3

\* The segments of a path: the texts between its '/'.
Segments(p) == Split(p, { "/" })

\* path.basename( p )
basename(p) == SubSeq(p, LastIndexIn(p, { "/" }) + 1, Len(p))

\* ignore().add( [ '**/.git', '**/node_modules', '**/templates', '**/dist', '**/build' ] ):
\* a path is ignored when one of its segments is one of these names.
IGNORE_PATTERN ==
  { << ".", "git" >>, << "node_modules" >>, << "templates" >>, << "dist" >>, << "build" >> }

ignores(p) == \E i \in 1..Len(Segments(p)) : Segments(p)[i] \in IGNORE_PATTERN

\* Util.getExtension( name ) in EXTENSION_COMMENT_PARSER_MAP
ExtensionInMap(name) ==
  Len(getExtension(name)) = 1 /\ JsIn(getExtension(name)[1], EXTENSION_KEYS)

\* The index of the file of the tree t at path p, 0 when there is none.
IndexOfFile(t, p) ==
  IF \E i \in 1..Len(t) : t[i].path = p
  THEN CHOOSE i \in 1..Len(t) : t[i].path = p
  ELSE 0

\* updateFileCopyright( filePath, forceWrite ) of the Copyright.js that has forceWrite:
\* the first line is replaced when it speaks of a copyright or when forceWrite is true,
\* otherwise the call fails.
updateFileCopyrightForceWrite(p, isfile, content, stdout, forceWrite) ==
  IF ~isfile
  THEN [ r |-> Fatal(<< "filePath " >> \o p \o << " is not a file." >>),
         wrote |-> FALSE, content |-> content ]
  ELSE
    LET fileLines == getFileLines(content)
        gen       == generateCopyrightStatementOf(p, isfile, stdout)
        copyrightStatement == gen.val
    IN  IF gen.outcome = "fatal"
        THEN [ r |-> gen, wrote |-> FALSE, content |-> content ]
        ELSE IF forceWrite \/ indexOfCopyright(toLowerCase(fileLines[1]))
        THEN [ r |-> Returned(UNDEFINED), wrote |-> TRUE,
               content |-> Join(<< copyrightStatement >> \o Tail(fileLines), osEOL) ]
        ELSE [ r |-> Fatal(p \o << " did not have a copyright statement on the first line to update: \n" >>
                           \o fileLines[1]),
               wrote |-> FALSE, content |-> content ]

\* A file the callback leaves alone.
NotCalled(file) ==
  [ r |-> Returned(UNDEFINED), called |-> FALSE, wrote |-> FALSE, content |-> file.content ]

\* The result of the call of a file function on a file.
Called(u) == [ r |-> u.r, called |-> TRUE, wrote |-> u.wrote, content |-> u.content ]
CalledCheck(file, c) == [ r |-> c, called |-> TRUE, wrote |-> FALSE, content |-> file.content ]

\* The callback that the directory function op passes to grunt.file.recurse, called for
\* a file: updateAllCopyrights and checkAllCopyrights look at the extension of the file
\* name, updateCopyright and checkCopyright at the extension of the whole path.
Callback(op, file, forceWrite) ==
  CASE op = "updateAllCopyrights" ->
         IF ~ignores(file.path) /\ ExtensionInMap(basename(file.path))
         THEN Called(updateFileCopyrightForceWrite(file.path, TRUE, file.content, file.stdout,
                                                   forceWrite))
         ELSE NotCalled(file)
    [] op = "checkAllCopyrights" ->
         IF ~ignores(file.path) /\ ExtensionInMap(basename(file.path))
         THEN CalledCheck(file, checkFileCopyrightOf(file.path, TRUE, file.content,
                                                     file.stdout, TRUE))
         ELSE NotCalled(file)
    [] op = "updateCopyright" ->
         IF ~ignores(file.path) /\ ExtensionInMap(file.path)
         THEN Called(updateFileCopyrightOf(file.path, TRUE, file.content, file.stdout))
         ELSE NotCalled(file)
    [] op = "checkCopyright" ->
         IF ~ignores(file.path) /\ ExtensionInMap(file.path)
         THEN CalledCheck(file, checkFileCopyrightOf(file.path, TRUE, file.content,
                                                     file.stdout, TRUE))
         ELSE NotCalled(file)

\* One entry of the log of a directory call: what the callback did with a file.
LogEntry(file, v) ==
  [ path |-> file.path, called |-> v.called, wrote |-> v.wrote, outcome |-> v.r.outcome ]

\* A recurse that goes on with the next file after the callback failed.
RECURSIVE recurse_GoesOn(_, _, _)
recurse_GoesOnAfter(file, v, rest) ==
  [ r     |-> IF v.r.outcome # "returned" THEN v.r ELSE rest.r,
    files |-> << [ file EXCEPT !.content = v.content ] >> \o rest.files,
    log   |-> << LogEntry(file, v) >> \o rest.log ]
recurse_GoesOn(files, op, forceWrite) ==
  IF files = <<>> THEN [ r |-> Returned(UNDEFINED), files |-> <<>>, log |-> <<>> ]
  ELSE recurse_GoesOnAfter(Head(files), Callback(op, Head(files), forceWrite),
                           recurse_GoesOn(Tail(files), op, forceWrite))

\* grunt.file.recurse( directory, callback ) over the files in their order: the callback
\* is called for one file after the other, and what it throws ends the recursion.
RECURSIVE recurse(_, _, _)
RecurseOn(file, v, rest) ==
  [ r     |-> rest.r,
    files |-> << [ file EXCEPT !.content = v.content ] >> \o rest.files,
    log   |-> << LogEntry(file, v) >> \o rest.log ]
RecurseAfter(file, v, files, op, forceWrite) ==
  IF v.r.outcome # "returned"
  THEN [ r |-> v.r, files |-> << [ file EXCEPT !.content = v.content ] >> \o files,
         log |-> << LogEntry(file, v) >> ]
  ELSE RecurseOn(file, v, recurse(files, op, forceWrite))
recurse(files, op, forceWrite) ==
  IF files = <<>> THEN [ r |-> Returned(UNDEFINED), files |-> <<>>, log |-> <<>> ]
  ELSE RecurseAfter(Head(files), Callback(op, Head(files), forceWrite), Tail(files),
                    op, forceWrite)

\* grunt.file.isFile, isDir and exists on the tree t.
isFileIn(t, p) == IndexOfFile(t, p) # 0
isDir(p) == p = Directory
exists(t, p) == isFileIn(t, p) \/ isDir(p)

\* The result of a file function, called for the file of the tree t at index i.
OnFile(t, i, v) ==
  [ r     |-> v.r,
    files |-> [ t EXCEPT ![i] = [ t[i] EXCEPT !.content = v.content ] ],
    log   |-> << LogEntry(t[i], v) >> ]

NothingDone(t, r) == [ r |-> r, files |-> t, log |-> <<>> ]

\* updateAllCopyrights( directory, forceWrite )
updateAllCopyrights(t, directory, forceWrite) ==
  IF ~isDir(directory)
  THEN NothingDone(t, Fatal(<< "directory " >> \o directory \o << " is not a directory." >>))
  ELSE recurse(t, "updateAllCopyrights", forceWrite)

\* checkAllCopyrights( directory )
checkAllCopyrights(t, directory) ==
  IF ~isDir(directory)
  THEN NothingDone(t, Fatal(<< "directory " >> \o directory \o << " is not a real directory." >>))
  ELSE recurse(t, "checkAllCopyrights", FALSE)

\* updateCopyright( path ): a file is updated, the files of a directory are updated.
updateCopyright(t, path) ==
  IF ~exists(t, path) THEN NothingDone(t, Fatal(<< "path doesn't exist: " >> \o path))
  ELSE IF isFileIn(t, path)
  THEN OnFile(t, IndexOfFile(t, path),
              Called(updateFileCopyrightOf(path, TRUE, t[IndexOfFile(t, path)].content,
                                           t[IndexOfFile(t, path)].stdout)))
  ELSE recurse(t, "updateCopyright", FALSE)

\* checkCopyright( path ): for a file it calls updateFileCopyright, the files of a
\* directory are checked.
checkCopyright(t, path) ==
  IF ~exists(t, path) THEN NothingDone(t, Fatal(<< "path doesn't exist: " >> \o path))
  ELSE IF isFileIn(t, path)
  THEN OnFile(t, IndexOfFile(t, path),
              Called(updateFileCopyrightOf(path, TRUE, t[IndexOfFile(t, path)].content,
                                           t[IndexOfFile(t, path)].stdout)))
  ELSE recurse(t, "checkCopyright", FALSE)

\* The effects of the call op( path ) whose result is d.
DirectoryCallDoes(op, path, forceWrite, d) ==
  /\ tree' = d.files
  /\ exited' = (d.r.outcome = "fatal")
  /\ treeCall' = [ op |-> op, path |-> path, forceWrite |-> forceWrite,
                   outcome |-> d.r.outcome, err |-> d.r.err,
                   before |-> tree, log |-> d.log ]
  /\ UNCHANGED << PACKAGE_JSON, copyrightVars, generatorVars, configVars, lintVars,
                  asyncVars >>

UpdateAllCopyrights(directory, forceWrite) ==
  /\ ~exited
  /\ DirectoryCallDoes("updateAllCopyrights", directory, forceWrite,
                       updateAllCopyrights(tree, directory, forceWrite))

CheckAllCopyrights(directory) ==
  /\ ~exited
  /\ DirectoryCallDoes("checkAllCopyrights", directory, FALSE,
                       checkAllCopyrights(tree, directory))

UpdateCopyright(path) ==
  /\ ~exited
  /\ DirectoryCallDoes("updateCopyright", path, FALSE, updateCopyright(tree, path))

CheckCopyright(path) ==
  /\ ~exited
  /\ DirectoryCallDoes("checkCopyright", path, FALSE, checkCopyright(tree, path))

\* The paths of the files a directory may hold, in the order of a recursion that reads
\* the names of a directory sorted: a supported file whose name starts with a dot, a file
\* whose extension is the name of a member of Object.prototype, a file of a dependency,
\* a file of no supported extension, and two supported files.
DirectoryPaths ==
  << << ".", "gitignore" >>,
     << "dump", ".", "toString" >>,
     << "node_modules", "/", "lib", ".", "js" >>,
     << "notes", ".", "txt" >>,
     << "src", "/", "Util", ".", "js" >>,
     << "style", ".", "css" >> >>

\* The first line of a file of the directory: the correct statement (a stale one where
\* the file has no correct statement), a stale statement, or another comment.
DirectoryFirstLine(p, stdout, kind) ==
  CASE kind = "correct" ->
         IF generateCopyrightStatementOf(p, TRUE, stdout).outcome = "returned"
         THEN generateCopyrightStatementOf(p, TRUE, stdout).val
         ELSE StaleStatement(p)
    [] kind = "stale" -> StaleStatement(p)
    [] kind = "other" -> << "// some other comment" >>

DirectoryFile(p, stdout, kind) ==
  [ path |-> p, content |-> DirectoryFirstLine(p, stdout, kind) \o << "\n", "'use strict';" >>,
    stdout |-> stdout ]

\* The directories of up to MaxFiles of these files, all checked in at the same time.
Trees(stdout) ==
  UNION { { [ i \in 1..n |-> DirectoryFile(DirectoryPaths[at[i]], stdout, kinds[i]) ] :
              at \in { q \in [1..n -> 1..Len(DirectoryPaths)] :
                         \A i, j \in 1..n : i < j => q[i] < q[j] },
              kinds \in [1..n -> { "correct", "stale", "other" }] } : n \in 1..MaxFiles }

NoTreeCall == [ op |-> "none", path |-> <<>>, forceWrite |-> FALSE, outcome |-> "none",
                err |-> <<>>, before |-> <<>>, log |-> <<>> ]

InitDirectory ==
  /\ filePath = <<>>
  /\ fileContent = <<>>
  /\ osEOL = "\n"
  /\ gitInstalled \in BOOLEAN
  /\ gitStdout = << YearText(FirstYear), "-", "03-05T10:00:00+01:00", "\n" >>
  /\ CURRENT_YEAR = LastYear
  /\ calendarYear = CURRENT_YEAR
  /\ lastCall = NoCall
  /\ exited = FALSE
  /\ tree \in Trees(gitStdout)
  /\ treeCall = NoTreeCall
  /\ PACKAGE_JSON = Undefined
  /\ IdleGenerator
  /\ IdleConfig
  /\ IdleLint
  /\ IdleAsync

NextDirectory ==
  \/ \E forceWrite \in BOOLEAN : UpdateAllCopyrights(Directory, forceWrite)
  \/ CheckAllCopyrights(Directory)
  \/ \E path \in { Directory, MissingPath } \cup { tree[i].path : i \in 1..Len(tree) } :
       UpdateCopyright(path)
  \/ \E path \in { Directory, MissingPath } \cup { tree[i].path : i \in 1..Len(tree) } :
       CheckCopyright(path)

SpecDirectory == InitDirectory /\ [][NextDirectory]_vars

-----------------------------------------------------------------------------
(* UserConfig.parseNestedJSONValue as a function of the configuration and  *)
(* its arguments.                                                          *)

\* Longest subpaths.
MaxPathLen == 3

ConfigKeys == { "author", "name" }
ConfigLeaves == { Str(<< "Brandon Li" >>), Num(<< "7" >>), Null, True, EmptyArray }
ObjectsOver(values) == { Obj(kids) : kids \in UNION { [K -> values] : K \in SUBSET ConfigKeys } }
\* package.json: missing (undefined), or an object nested at most two deep.
ConfigTrees ==
  { Undefined } \cup ObjectsOver(ConfigLeaves \cup ObjectsOver(ConfigLeaves))

NoCfgCall == [ outcome |-> "none", val |-> Undefined, err |-> <<>> ]

InitConfig ==
  /\ PACKAGE_JSON \in ConfigTrees
  /\ cfgInput \in [ name : { "PACKAGE_JSON", "BUILD_RC" },
                    subpaths : UNION { [1..n -> ConfigKeys] : n \in 1..MaxPathLen },
                    valueName : { <<>>, << "AUTHOR" >> } ]
  /\ cfgCall = NoCfgCall
  /\ exited = FALSE
  /\ IdleCopyright
  /\ IdleGenerator
  /\ IdleDirectory
  /\ IdleLint
  /\ IdleAsync

\* One call of UserConfig.parseNestedJSONValue( name, subpaths, valueName ).
ParseNestedJSONValue ==
  /\ ~exited
  /\ cfgCall.outcome = "none"
  /\ cfgCall' = parseNestedJSONValue(PACKAGE_JSON, cfgInput.name, cfgInput.subpaths,
                                     cfgInput.valueName)
  /\ exited' = (cfgCall'.outcome = "fatal")
  /\ UNCHANGED << cfgInput, PACKAGE_JSON, copyrightVars, generatorVars, directoryVars,
                  lintVars, asyncVars >>

NextConfig == ParseNestedJSONValue

SpecConfig == InitConfig /\ [][NextConfig]_vars

-----------------------------------------------------------------------------
(* One run of a process that uses Generator.                               *)

\* The package.json objects of the model (Undefined: there is no package.json).
PackageA ==
  Obj([ name       |-> Str(<< "grunt", "-", "config" >>),
        version    |-> Str(<< "1.0.0" >>),
        author     |-> Obj([ name |-> Str(<< "Brandon Li" >>),
                             email |-> Str(<< "brandon.li820@gmail.com" >>) ]),
        repository |-> Obj([ url |-> Str(<< "git", "+https:/", "/git",
                                            "hub.com/brandonLi8/grunt-config", ".git" >>) ]) ])
PackageB ==
  Obj([ name       |-> Str(<< "OTHER", "_", "repo" >>),
        version    |-> Num(<< "2" >>),
        author     |-> Obj([ name |-> Str(<< "Jane Doe" >>) ]) ])
PackageAuthorString ==
  Obj([ name       |-> Num(<< "7" >>),
        author     |-> Str(<< "Brandon Li" >>) ])
Packages == { Undefined, PackageA, PackageB, PackageAuthorString }

\* The names and values the calls of the model are made with.
CallNames == { "AUTHOR", "REPO_TITLE", "COPYRIGHT_YEARS", "UNKNOWN", "constructor" }
CallValues == { Str(<< "2019", "-", "2020" >>), Num(<< "2020" >>), Null }

EmptyMap == [ k \in {} |-> Undefined ]
MapPut(m, k, v) == [ x \in DOMAIN m \cup { k } |-> IF x = k THEN v ELSE m[x] ]
MapRemove(m, k) == [ x \in DOMAIN m \ { k } |-> m[x] ]

\* genCall: the last call (op, name, arg), what it did (outcome, val, err), the
\* REPLACEMENT_VALUES before it, the call before it, and what the run has seen so far:
\*   first      - per name, the first value getValue returned
\*   stable     - per name, the value getValue returned since that name was last registered
\*   registered - per name, the value of the last registration that went through
\* The names of seq, and those of them that are in seen or stand in seq more than once.
Range(seq) == { seq[i] : i \in 1..Len(seq) }
Repeated(seen, seq) ==
  { seq[k] : k \in { i \in 1..Len(seq) : seq[i] \in seen \/ \E j \in 1..(i - 1) : seq[j] = seq[i] } }

\* The last call of the Generator, and of the run so far: the first value getValue
\* returned for a name, the names for which UserConfig.parseNestedJSONValue was called,
\* those for which the parse of the schema was called, and those for which they were
\* called more than once.
NoGenCall ==
  [ op |-> "none", name |-> "", arg |-> Undefined, outcome |-> "none", val |-> Undefined,
    err |-> <<>>, before |-> EmptyMap, after |-> EmptyMap, prevOp |-> "none",
    path |-> <<>>, outputBefore |-> NoOutput, wrote |-> FALSE,
    first |-> EmptyMap, stable |-> EmptyMap, registered |-> EmptyMap,
    traversed |-> {}, retraversed |-> {}, transformed |-> {}, retransformed |-> {} ]

\* genCall.traversed, ... after a call in which parseNestedJSONValue was called for the
\* names of traversed and the parse of the schema for the names of transformed.
Traversals(call, traversed, transformed) ==
  [ call EXCEPT !.traversed = genCall.traversed \cup Range(traversed),
                !.retraversed = genCall.retraversed \cup Repeated(genCall.traversed, traversed),
                !.transformed = genCall.transformed \cup Range(transformed),
                !.retransformed = genCall.retransformed
                                    \cup Repeated(genCall.transformed, transformed) ]

InitGenerator ==
  /\ PACKAGE_JSON \in Packages
  /\ REPLACEMENT_VALUES = EmptyMap
  /\ underscoreBound \in BOOLEAN
  /\ templateFile = <<>>
  /\ outputFile = NoOutput
  /\ genCall = NoGenCall
  /\ exited = FALSE
  /\ IdleCopyright
  /\ IdleConfig
  /\ IdleDirectory
  /\ IdleLint
  /\ IdleAsync

GetValue(replacementString) ==
  /\ ~exited
  /\ LET g == getValue(replacementString)
         ok == g.r.outcome = "returned"
     IN  /\ REPLACEMENT_VALUES' = g.values
         /\ exited' = (g.r.outcome # "returned")
         /\ genCall' =
              Traversals(
                [ genCall EXCEPT
                    !.op = "getValue", !.name = replacementString, !.arg = Undefined,
                    !.outcome = g.r.outcome, !.val = g.r.val, !.err = g.r.err,
                    !.before = REPLACEMENT_VALUES, !.after = g.values,
                    !.prevOp = genCall.op, !.path = <<>>, !.outputBefore = outputFile,
                    !.wrote = FALSE,
                    !.first = IF ok /\ replacementString \notin DOMAIN genCall.first
                              THEN MapPut(genCall.first, replacementString, g.r.val)
                              ELSE genCall.first,
                    !.stable = IF ok /\ replacementString \notin DOMAIN genCall.stable
                               THEN MapPut(genCall.stable, replacementString, g.r.val)
                               ELSE genCall.stable ],
                IF g.traversed THEN << replacementString >> ELSE <<>>,
                IF g.transformed THEN << replacementString >> ELSE <<>>)
  /\ UNCHANGED << PACKAGE_JSON, underscoreBound, templateFile, outputFile, copyrightVars,
                  configVars, directoryVars,
                  lintVars, asyncVars >>

RegisterRunTimeReplacementValue(replacementString, value) ==
  /\ ~exited
  /\ LET g == registerRunTimeReplacementValue(replacementString, value)
         ok == g.r.outcome = "returned"
     IN  /\ REPLACEMENT_VALUES' = g.values
         /\ exited' = (g.r.outcome # "returned")
         /\ genCall' =
              [ genCall EXCEPT
                  !.op = "registerRunTimeReplacementValue", !.name = replacementString,
                  !.arg = value, !.outcome = g.r.outcome, !.val = g.r.val, !.err = g.r.err,
                  !.before = REPLACEMENT_VALUES, !.after = g.values,
                  !.prevOp = genCall.op, !.path = <<>>, !.outputBefore = outputFile,
                  !.wrote = FALSE,
                  !.stable = IF ok THEN MapRemove(genCall.stable, replacementString)
                             ELSE genCall.stable,
                  !.registered = IF ok THEN MapPut(genCall.registered, replacementString, value)
                                 ELSE genCall.registered ]
  /\ UNCHANGED << PACKAGE_JSON, underscoreBound, templateFile, outputFile, copyrightVars,
                  configVars, directoryVars,
                  lintVars, asyncVars >>

\* The package.json object is changed in place while the process runs.
MutatePackageJson ==
  /\ ~exited
  /\ genCall.op # "mutatePackageJson"
  /\ PACKAGE_JSON' \in Packages \ { PACKAGE_JSON }
  /\ genCall' = [ genCall EXCEPT !.op = "mutatePackageJson", !.name = "", !.arg = Undefined,
                                 !.outcome = "returned", !.val = Undefined, !.err = <<>>,
                                 !.before = REPLACEMENT_VALUES,
                                 !.after = REPLACEMENT_VALUES, !.prevOp = genCall.op,
                                 !.path = <<>>, !.outputBefore = outputFile,
                                 !.wrote = FALSE ]
  /\ UNCHANGED << REPLACEMENT_VALUES, underscoreBound, templateFile, outputFile, exited,
                  copyrightVars, configVars, directoryVars,
                  lintVars, asyncVars >>

NextGenerator ==
  \/ \E replacementString \in CallNames : GetValue(replacementString)
  \/ \E replacementString \in CallNames, value \in CallValues :
       RegisterRunTimeReplacementValue(replacementString, value)
  \/ MutatePackageJson

SpecGenerator == InitGenerator /\ [][NextGenerator]_vars

-----------------------------------------------------------------------------
(* Generator.generateFile                                                  *)

\* Copyright.computeCopyrightYears( outputFilePath ): the years string of the file, the
\* year it was checked into git, or the current year when git has no date for it, and
\* the current year when that is another year.
\* What `git log` prints for an output file: README.md is the file gitStdout is about,
\* .travis.yml is not checked in.
GitLog(outputFilePath) == IF outputFilePath = OutputPath THEN gitStdout ELSE <<>>

computeCopyrightYears(outputFilePath) ==
  LET fromGit   == gitStartYear(GitLog(outputFilePath))
      startYear == IF fromGit # <<>> THEN fromGit ELSE << YearText(CURRENT_YEAR) >>
  IN  yearsString(startYear, CURRENT_YEAR)

\* The text Array.prototype.join puts in for a replacement value.
ToText(value) == value.s

\* The filter of generateFile: str in REPLACEMENT_STRINGS_SCHEMA.
InSchema(str) == Len(str) = 1 /\ JsIn(str[1], SCHEMA_KEYS)

\* replacementStrings.forEach( ... ): st is the template and REPLACEMENT_VALUES so far,
\* and the result of the getValue that did not return, if one did not.  ReplaceOne is
\* the body of the loop, g the result of its Generator.getValue( replacementString ).
RECURSIVE ReplaceEach(_, _)
RECURSIVE ReplaceOne(_, _, _, _)
ReplaceOne(st, replacementString, g, rest) ==
  IF g.r.outcome # "returned"
  THEN [ st EXCEPT !.r = g.r, !.values = g.values,
                   !.traversed = IF g.traversed THEN Append(@, replacementString) ELSE @,
                   !.transformed = IF g.transformed THEN Append(@, replacementString) ELSE @ ]
  ELSE ReplaceEach([ st EXCEPT
                       !.template = replaceAllText(st.template,
                                      << "{{", replacementString, "}}" >>,
                                      ToText(g.r.val)),
                       !.values = g.values,
                       !.traversed = IF g.traversed THEN Append(@, replacementString) ELSE @,
                       !.transformed = IF g.transformed THEN Append(@, replacementString)
                                       ELSE @ ],
                   rest)

ReplaceEach(st, replacementStrings) ==
  IF replacementStrings = <<>> THEN st
  ELSE ReplaceOne(st, Head(replacementStrings)[1],
                  getValueFrom(st.values, Head(replacementStrings)[1]),
                  Tail(replacementStrings))

\* The result of a generateFile in which no getValue was called.
NoneReplaced(r, values) ==
  [ r |-> r, values |-> values, wrote |-> FALSE, output |-> <<>>,
    traversed |-> <<>>, transformed |-> <<>> ]

\* A generateFile that writes what it has replaced so far, whatever its loop ended as.
Replaced_WritesAnyway(done) ==
  [ r |-> done.r, values |-> done.values, wrote |-> TRUE, output |-> done.template,
    traversed |-> done.traversed, transformed |-> done.transformed ]

\* The result of a generateFile whose loop ended as done.
Replaced(done) ==
  [ r |-> done.r, values |-> done.values, wrote |-> done.r.outcome = "returned",
    output |-> IF done.r.outcome = "returned" THEN done.template ELSE <<>>,
    traversed |-> done.traversed, transformed |-> done.transformed ]

\* generateFile from line 154 on: the loop over the replacement strings found, and
\* grunt.file.write when every getValue returned.
ReplaceAndWrite(template, values, replacementStrings) ==
  Replaced(ReplaceEach([ template |-> template, values |-> values,
                         r |-> ReturnedValue(Undefined),
                         traversed |-> <<>>, transformed |-> <<>> ],
                       replacementStrings))

\* generateFile from line 147 on: inner is the result of getInnerDelimeterStrings.
FindAndReplace(template, values, inner) ==
  IF inner.outcome # "returned"
  THEN NoneReplaced(TypeError(inner.err), values)
  ELSE ReplaceAndWrite(template, values, SelectSeq(inner.val, InSchema))

\* generateFile from line 144 on: registered is the result of registering
\* COPYRIGHT_YEARS.
RegisterAndReplace(template, registered) ==
  IF registered.r.outcome # "returned"
  THEN NoneReplaced(registered.r, registered.values)
  ELSE FindAndReplace(template, registered.values,
                      getInnerDelimeterStrings(template, "{{", "}}"))

\* generateFile that registers COPYRIGHT_YEARS only when no value is registered yet.
generateFile_KeepsRegistered(templateFilePath, outputFilePath) ==
  RegisterAndReplace(templateFile,
                     IF "COPYRIGHT_YEARS" \in DOMAIN REPLACEMENT_VALUES
                     THEN [ r |-> ReturnedValue(Undefined), values |-> REPLACEMENT_VALUES ]
                     ELSE registerRunTimeReplacementValue("COPYRIGHT_YEARS",
                            Str(computeCopyrightYears(outputFilePath))))

\* What a call of generateFile( templateFilePath, outputFilePath ) does: its result,
\* REPLACEMENT_VALUES afterwards, whether grunt.file.write was called, and with what.
\* grunt.file.read( templateFilePath ) gives templateFile.
generateFile(templateFilePath, outputFilePath) ==
  RegisterAndReplace(templateFile,
                     registerRunTimeReplacementValue("COPYRIGHT_YEARS",
                       Str(computeCopyrightYears(outputFilePath))))

TemplatePath == << "templates", "/", "README", ".", "md" >>

\* The effects of a generate task of the Gruntfile whose call of generateFile has the
\* result g.  The task runs inside Util.wrap: what generateFile throws ends the run as a
\* fatal error.
GenerateFileDoes(g, outputFilePath) ==
  /\ REPLACEMENT_VALUES' = g.values
  /\ outputFile' = IF g.wrote
                   THEN [ outputFile EXCEPT
                            ![outputFilePath] = [ exists |-> TRUE, content |-> g.output ] ]
                   ELSE outputFile
  /\ exited' = (g.r.outcome # "returned")
  /\ genCall' =
       Traversals(
         [ genCall EXCEPT
             !.op = "generateFile", !.name = "", !.arg = Undefined,
             !.outcome = g.r.outcome, !.val = Undefined, !.err = g.r.err,
             !.before = REPLACEMENT_VALUES, !.after = g.values,
             !.prevOp = genCall.op, !.path = outputFilePath,
             !.outputBefore = outputFile, !.wrote = g.wrote,
             !.stable = MapRemove(genCall.stable, "COPYRIGHT_YEARS"),
             !.registered = MapPut(genCall.registered, "COPYRIGHT_YEARS",
                                   Str(computeCopyrightYears(outputFilePath))) ],
         g.traversed, g.transformed)

GenerateFile(templateFilePath, outputFilePath) ==
  /\ ~exited
  /\ GenerateFileDoes(generateFile(templateFilePath, outputFilePath), outputFilePath)
  /\ UNCHANGED << PACKAGE_JSON, underscoreBound, templateFile, copyrightVars, configVars, directoryVars,
                  lintVars, asyncVars >>

\* The package.json objects of the generated files: a usual one, one whose description
\* speaks of a placeholder, one without a version.
PackagePlain ==
  Obj([ name        |-> Str(<< "grunt", "-", "config" >>),
        version     |-> Str(<< "1.0.0" >>),
        description |-> Str(<< "Shared grunt tasks" >>) ])
PackageBraces ==
  Obj([ name        |-> Str(<< "grunt", "-", "config" >>),
        version     |-> Str(<< "1.0.0" >>),
        description |-> Str(<< "Replaces ", "{{", "VERSION", "}}", " in templates" >>) ])
PackageNoVersion ==
  Obj([ name        |-> Str(<< "grunt", "-", "config" >>),
        description |-> Str(<< "Shared grunt tasks" >>) ])
FilePackages == { PackagePlain, PackageBraces, PackageNoVersion }

\* The parts templates are made of: text, a line end, tokens of schema placeholders, a
\* token of no placeholder, a token named as a member of Object.prototype, and a lone
\* start delimiter.
TemplateParts ==
  { << "# " >>, << "\n" >>, << "{{" >>,
    << "{{", "DESCRIPTION", "}}" >>, << "{{", "VERSION", "}}" >>,
    << "{{", "COPYRIGHT_YEARS", "}}" >>, << "{{", "BUILD_HEAD", "}}" >>,
    << "{{", "UNKNOWN", "}}" >>, << "{{", "constructor", "}}" >> }

Templates ==
  UNION { { Flatten(parts) : parts \in [1..n -> TemplateParts] } : n \in 0..MaxParts }

InitGenerateFile ==
  /\ PACKAGE_JSON \in FilePackages
  /\ REPLACEMENT_VALUES = EmptyMap
  /\ underscoreBound \in BOOLEAN
  /\ templateFile \in Templates
  /\ outputFile \in { NoOutput,
                        [ p \in OutputPaths |-> [ exists |-> TRUE, content |-> << "# old" >> ] ] }
  /\ genCall = NoGenCall
  /\ exited = FALSE
  /\ filePath = <<>>
  /\ fileContent = <<>>
  /\ osEOL = "\n"
  /\ gitInstalled = TRUE
  /\ gitStdout \in { <<>>, << YearText(FirstYear), "-", "03-05T10:00:00+01:00", "\n" >> }
  /\ CURRENT_YEAR = LastYear
  /\ calendarYear = LastYear
  /\ lastCall = NoCall
  /\ IdleConfig
  /\ IdleDirectory
  /\ IdleLint
  /\ IdleAsync

NextGenerateFile ==
  \E templateFilePath \in { TemplatePath }, outputFilePath \in OutputPaths :
    GenerateFile(templateFilePath, outputFilePath)

SpecGenerateFile == InitGenerateFile /\ [][NextGenerateFile]_vars

-----------------------------------------------------------------------------
(* One run of generate tasks: getValue and generateFile on several files.  *)

\* The placeholders the templates of a run use and getValue is called with: values of
\* package.json as they are, values with a parse, and the run-time value generateFile
\* registers.
RunNames == { "REPO_TITLE", "GITHUB_URL", "VERSION", "COPYRIGHT_YEARS" }

\* The templates of a run: up to MaxTokens tokens of these placeholders after a heading,
\* the same token twice among them.
MaxTokens == 2
RunTemplates ==
  { << "# " >> \o Flatten([ i \in 1..Len(names) |-> << "{{", names[i], "}}" >> ]) :
      names \in UNION { [1..k -> RunNames] : k \in 1..MaxTokens } }

\* The package.json objects of a run: a usual one, one without repository and with a
\* number as version, one whose name is no string.
RunPackages == { PackageA, PackageB, PackageAuthorString }

InitRun ==
  /\ PACKAGE_JSON \in RunPackages
  /\ REPLACEMENT_VALUES = EmptyMap
  /\ underscoreBound \in BOOLEAN
  /\ templateFile \in RunTemplates
  /\ outputFile = NoOutput
  /\ genCall = NoGenCall
  /\ exited = FALSE
  /\ filePath = <<>>
  /\ fileContent = <<>>
  /\ osEOL = "\n"
  /\ gitInstalled = TRUE
  /\ gitStdout = << YearText(FirstYear), "-", "03-05T10:00:00+01:00", "\n" >>
  /\ CURRENT_YEAR = LastYear
  /\ calendarYear = LastYear
  /\ lastCall = NoCall
  /\ IdleConfig
  /\ IdleDirectory
  /\ IdleLint
  /\ IdleAsync

NextRun ==
  \/ \E replacementString \in RunNames : GetValue(replacementString)
  \/ \E templateFilePath \in { TemplatePath }, outputFilePath \in OutputPaths :
       GenerateFile(templateFilePath, outputFilePath)

SpecRun == InitRun /\ [][NextRun]_vars

-----------------------------------------------------------------------------
(* The eslint rule sort-require-statements.                                *)

\* Number of variable declarations of a linted file.
MaxStatements == 3

\* The variable names of the linted files, and the < of JavaScript on the strings of the
\* model, which compares code units: upper case letters come before lower case letters.
VariableNames == { "Apple", "art", "Art", "Bar" }
CodeUnitOrder == << "Apple", "Art", "Bar", "apple", "art", "bar" >>
CodeUnitIndex(str) == CHOOSE i \in 1..Len(CodeUnitOrder) : CodeUnitOrder[i] = str
StringLess(a, b) == CodeUnitIndex(a) < CodeUnitIndex(b)

\* A VariableDeclaration node: the name of its first declarator, whether its init is a
\* call of require, the line it stands on, and its parent node.
Parents == { "Program", "BlockStatement" }
NoNode == [ name |-> "", require |-> FALSE, line |-> 0, parent |-> "" ]
DeclarationKinds ==
  { [ name |-> name, require |-> TRUE ] : name \in VariableNames }
    \cup { [ name |-> "art", require |-> FALSE ] }

\* The line of the i-th declaration when gaps[k] lines lie between the starts of
\* declaration k - 1 and declaration k.
RECURSIVE LineAfter(_, _)
LineAfter(gaps, i) == IF i = 0 THEN 0 ELSE LineAfter(gaps, i - 1) + gaps[i]

\* The file with the declarations kinds, gaps[i] lines after one another, in parents.
ProgramOf(kinds, gaps, parents) ==
  [ i \in 1..Len(kinds) |->
      [ name |-> kinds[i].name, require |-> kinds[i].require,
        line |-> LineAfter(gaps, i), parent |-> parents[i] ] ]

\* The condition of VariableDeclaration for a new group: lastNodeAdded exists, and node
\* has another parent or does not start on the line after it.
IsNewGroup(node, last) ==
  /\ last # NoNode
  /\ ( node.parent # last.parent \/ node.line - last.line # 1 )

\* VariableDeclaration( node ) of the rule: a require statement is pushed to
\* currentGroup first; when it starts a new group, currentGroup is then pushed to
\* requireStatementGroups and replaced by an empty array.
VariableDeclaration ==
  /\ visited < Len(program)
  /\ LET node == program[visited + 1]
     IN  /\ visited' = visited + 1
         /\ IF ~node.require
            THEN UNCHANGED << requireStatementGroups, currentGroup, lastNodeAdded >>
            ELSE /\ requireStatementGroups' =
                      IF IsNewGroup(node, lastNodeAdded)
                      THEN Append(requireStatementGroups, Append(currentGroup, node))
                      ELSE requireStatementGroups
                 /\ currentGroup' =
                      IF IsNewGroup(node, lastNodeAdded) THEN <<>>
                      ELSE Append(currentGroup, node)
                 /\ lastNodeAdded' = node
  /\ UNCHANGED << program, reports, exited, PACKAGE_JSON, copyrightVars, generatorVars,
                  configVars, directoryVars, asyncVars >>

\* The context.report calls of Program:exit for one group: one for every variable name
\* that is less, in lower case, than the name before it.
Loc(group) == [ start |-> group[1].line, end |-> group[Len(group)].line ]
ReportsOf(group) ==
  LET variableNames == [ i \in 1..Len(group) |-> group[i].name ]
      unsorted == { index \in 2..Len(group) :
                      StringLess(ToLowerCasePiece(variableNames[index]),
                                 ToLowerCasePiece(variableNames[index - 1])) }
  IN  [ i \in 1..Cardinality(unsorted) |-> Loc(group) ]

RECURSIVE ReportsOfAll(_)
ReportsOfAll(groups) ==
  IF groups = <<>> THEN <<>> ELSE ReportsOf(Head(groups)) \o ReportsOfAll(Tail(groups))

\* 'Program:exit' of the rule: the last group is pushed when it is not empty, and every
\* group is checked.
PushedAtExit(groups, group) == IF group # <<>> THEN Append(groups, group) ELSE groups

ProgramExit ==
  /\ visited = Len(program)
  /\ visited' = visited + 1
  /\ requireStatementGroups' = PushedAtExit(requireStatementGroups, currentGroup)
  /\ reports' = ReportsOfAll(PushedAtExit(requireStatementGroups, currentGroup))
  /\ UNCHANGED << program, currentGroup, lastNodeAdded, exited, PACKAGE_JSON,
                  copyrightVars, generatorVars, configVars, directoryVars, asyncVars >>

InitLint ==
  /\ \E n \in 0..MaxStatements :
       \E kinds \in [1..n -> DeclarationKinds], gaps \in [1..n -> 1..2],
          parents \in [1..n -> Parents] :
         program = ProgramOf(kinds, gaps, parents)
  /\ visited = 0
  /\ requireStatementGroups = <<>>
  /\ currentGroup = <<>>
  /\ lastNodeAdded = NoNode
  /\ reports = <<>>
  /\ exited = FALSE
  /\ PACKAGE_JSON = Undefined
  /\ IdleCopyright
  /\ IdleGenerator
  /\ IdleConfig
  /\ IdleDirectory
  /\ IdleAsync

NextLint == VariableDeclaration \/ ProgramExit

SpecLint == InitLint /\ [][NextLint]_vars

-----------------------------------------------------------------------------
(* Util.wrapAsync: the task functions grunt runs one after the other.      *)

\* Number of tasks of a run, and of awaits inside an async task.
MaxTasks == 3
MaxAwaits == 2

\* An async task: the number of times it awaits before its promise settles, and whether
\* the promise is rejected then.
AsyncTasks == [ awaits : 0..MaxAwaits, rejects : BOOLEAN ]

\* No task function is running.
NoRun == [ pc |-> "idle", promise |-> "none", awaits |-> 0, rejects |-> FALSE,
           events |-> <<>> ]

\* The state of the promise of an async task that has awaits awaits to go.
PromiseOf(awaits, rejects) ==
  IF awaits > 0 THEN "pending" ELSE IF rejects THEN "rejected" ELSE "fulfilled"

\* The await of the task function that is over: the promise of
\* asyncTask( ...args ).catch( ... ) is fulfilled when the promise of the task is.
Awaited_Unsettled(run) == run.pc = "awaiting" /\ run.promise \in { "pending", "fulfilled" }
Awaited(run) == run.pc = "awaiting" /\ run.promise = "fulfilled"

\* grunt calls the task function: done = this.async(), asyncTask( ...args ) runs up to
\* its first await and returns its promise, the catch handler is attached, and the
\* function waits.
CallTaskFunction ==
  /\ ~exited
  /\ asyncRun.pc = "idle"
  /\ asyncTasks # <<>>
  /\ asyncRun' = [ pc |-> "awaiting",
                   promise |-> PromiseOf(Head(asyncTasks).awaits, Head(asyncTasks).rejects),
                   awaits |-> Head(asyncTasks).awaits,
                   rejects |-> Head(asyncTasks).rejects,
                   events |-> << "async", "asyncTask" >>
                                \o IF Head(asyncTasks).awaits = 0 THEN << "settled" >>
                                   ELSE <<>> ]
  /\ asyncTasks' = Tail(asyncTasks)
  /\ UNCHANGED << exited, PACKAGE_JSON, copyrightVars, generatorVars, configVars,
                  directoryVars, lintVars >>

\* The async task goes on after one of its awaits; after the last its promise settles.
AsyncTaskGoesOn ==
  /\ ~exited
  /\ asyncRun.pc = "awaiting"
  /\ asyncRun.promise = "pending"
  /\ asyncRun' = [ asyncRun EXCEPT
                     !.awaits = @ - 1,
                     !.promise = PromiseOf(asyncRun.awaits - 1, asyncRun.rejects),
                     !.events = IF asyncRun.awaits = 1 THEN Append(@, "settled") ELSE @ ]
  /\ UNCHANGED << asyncTasks, exited, PACKAGE_JSON, copyrightVars, generatorVars,
                  configVars, directoryVars, lintVars >>

\* The task function goes on after its await: done().  grunt goes on to the next task.
Done ==
  /\ ~exited
  /\ Awaited(asyncRun)
  /\ asyncRun' = [ asyncRun EXCEPT !.pc = "idle", !.events = Append(@, "done") ]
  /\ UNCHANGED << asyncTasks, exited, PACKAGE_JSON, copyrightVars, generatorVars,
                  configVars, directoryVars, lintVars >>

\* The promise of the task is rejected: the catch handler calls Util.throw, and
\* grunt.fail.fatal ends the process.
Catch ==
  /\ ~exited
  /\ asyncRun.pc = "awaiting"
  /\ asyncRun.promise = "rejected"
  /\ asyncRun' = [ asyncRun EXCEPT !.pc = "failed",
                                   !.events = Append(@, "fatal: Task failed") ]
  /\ exited' = TRUE
  /\ UNCHANGED << asyncTasks, PACKAGE_JSON, copyrightVars, generatorVars, configVars,
                  directoryVars, lintVars >>

InitAsync ==
  /\ asyncTasks \in UNION { [1..n -> AsyncTasks] : n \in 1..MaxTasks }
  /\ asyncRun = NoRun
  /\ exited = FALSE
  /\ PACKAGE_JSON = Undefined
  /\ IdleCopyright
  /\ IdleGenerator
  /\ IdleConfig
  /\ IdleDirectory
  /\ IdleLint

NextAsync == CallTaskFunction \/ AsyncTaskGoesOn \/ Done \/ Catch

SpecAsync == InitAsync /\ [][NextAsync]_vars

-----------------------------------------------------------------------------
(* Claims about Copyright.js (SpecCopyright).                              *)

\* The call lastCall was made on a file generateCopyrightStatement has a statement for.
StatementOf(p) == generateCopyrightStatement(p).val
Supported(p) == generateCopyrightStatement(p).outcome = "returned"
FirstLineBefore == getFileLines(lastCall.before)[1]
UpdateReturned == lastCall.op = "updateFileCopyright" /\ lastCall.outcome = "returned"

\* C1: updateFileCopyright on a file whose first line already is the generated statement
\* writes nothing and leaves the content, line terminators included, as it was; and an
\* updateFileCopyright that follows an updateFileCopyright changes nothing.
C1_UpdateIdempotent ==
  UpdateReturned =>
    /\ (FirstLineBefore = StatementOf(lastCall.path)
          => ~lastCall.wrote /\ fileContent = lastCall.before)
    /\ (lastCall.prevOp = "updateFileCopyright" /\ lastCall.prevOutcome = "returned"
          => ~lastCall.wrote /\ fileContent = lastCall.before)

\* A second updateFileCopyright in a row, on a correct file whose line terminators are
\* not those of the platform.
C1_Witness ==
  /\ UpdateReturned
  /\ lastCall.prevOp = "updateFileCopyright"
  /\ FirstLineBefore = StatementOf(lastCall.path)
  /\ osEOL = "\n"
  /\ \E i \in 1..Len(fileContent) : fileContent[i] = "\r\n"

\* C2: when the first line is not the generated statement but contains 'copyright' in any
\* letter case, only that line is replaced: the lines afterwards are the statement
\* followed by the lines 2..n of before, as many lines as before.
C2_ReplacesOnlyFirstLine ==
  ( /\ UpdateReturned
    /\ FirstLineBefore # StatementOf(lastCall.path)
    /\ indexOfCopyright(ToLowerCaseText(FirstLineBefore)) )
  => /\ lastCall.wrote
     /\ getFileLines(fileContent)
          = << StatementOf(lastCall.path) >> \o Tail(getFileLines(lastCall.before))
     /\ Len(getFileLines(fileContent)) = Len(getFileLines(lastCall.before))

\* An upper-case COPYRIGHT first line of a file of several lines was replaced.
C2_Witness ==
  /\ UpdateReturned
  /\ FirstLineBefore = << "// COPYRIGHT 2001 ACME" >>
  /\ Len(getFileLines(lastCall.before)) >= 2
  /\ getFileLines(fileContent)[1] = StatementOf(lastCall.path)

C4_CheckFileCopyright ==
  ( /\ lastCall.op = "checkFileCopyright"
    /\ Supported(lastCall.path) )
  => /\ ~lastCall.wrote /\ fileContent = lastCall.before
     /\ ~lastCall.shouldThrow =>
          /\ lastCall.outcome = "returned"
          /\ lastCall.val = (IF FirstLineBefore = StatementOf(lastCall.path)
                             THEN << "true" >> ELSE << "false" >>)
     /\ lastCall.shouldThrow =>
          /\ (lastCall.outcome = "fatal") = (FirstLineBefore # StatementOf(lastCall.path))
          /\ (lastCall.outcome = "fatal" => lastCall.err[1] = "invalid copyright statement in ")
          /\ (lastCall.outcome # "fatal" => lastCall.outcome = "returned")

\* A mismatch was reported as false by a check that does not throw.
C4_Witness ==
  /\ lastCall.op = "checkFileCopyright"
  /\ ~lastCall.shouldThrow
  /\ lastCall.val = << "false" >>
  /\ indexOfCopyright(ToLowerCaseText(FirstLineBefore))

-----------------------------------------------------------------------------
(* Claims about Generator.js (SpecGenerator).                              *)

GetValueReturned == genCall.op = "getValue" /\ genCall.outcome = "returned"
RunTimePlaceholder(name) ==
  name \in SCHEMA_KEYS /\ REPLACEMENT_STRINGS_SCHEMA[name].kind = "null"

\* C5: getValue( name ) fails with the 'not registered' error for every name that is not
\* a key declared in REPLACEMENT_STRINGS_SCHEMA, and returns no value for it.
C5_UndeclaredNameNotRegistered ==
  ( genCall.op = "getValue" /\ genCall.name \notin SCHEMA_KEYS )
  => /\ genCall.outcome = "fatal"
     /\ genCall.err = NotRegistered(genCall.name)

\* C6 as claimed: a value getValue( name ) returns is the value the first getValue( name )
\* of the run returned, for every placeholder.
C6_SameValueAsFirstReturned ==
  GetValueReturned => genCall.val = genCall.first[genCall.name]

\* C6, amended: a value getValue( name ) returns is the value getValue( name ) returned
\* before, unless name was registered again in between; for a placeholder that is not a
\* run-time placeholder it is the first value returned in the run, whatever has become of
\* the package.json object.
C6_CacheStableUnlessRegisteredAgain ==
  GetValueReturned =>
    /\ genCall.val = genCall.stable[genCall.name]
    /\ (~RunTimePlaceholder(genCall.name) => genCall.val = genCall.first[genCall.name])

\* AUTHOR came from the cache right after package.json was changed to an object that
\* would not give that value.
C6_Witness ==
  /\ GetValueReturned
  /\ genCall.name = "AUTHOR"
  /\ "AUTHOR" \in DOMAIN genCall.before
  /\ genCall.prevOp = "mutatePackageJson"
  /\ parseNestedJSONValue(PACKAGE_JSON, "PACKAGE_JSON", << "author", "name" >>,
                          << "AUTHOR" >>).val # genCall.val

\* C7: getValue of a run-time placeholder no registration of the run went through for
\* fails with the 'wasn't registered' error, which is not the 'not registered' error, and
\* leaves REPLACEMENT_VALUES as it was.
C7_UnregisteredRunTimeValue ==
  ( /\ genCall.op = "getValue"
    /\ RunTimePlaceholder(genCall.name)
    /\ genCall.name \notin DOMAIN genCall.registered )
  => /\ genCall.outcome = "fatal"
     /\ genCall.err = WasntRegistered(genCall.name)
     /\ genCall.err # NotRegistered(genCall.name)
     /\ REPLACEMENT_VALUES = genCall.before

\* COPYRIGHT_YEARS was asked for before it was registered, in a run that had cached
\* another value already.
C7_Witness ==
  /\ genCall.op = "getValue"
  /\ genCall.name = "COPYRIGHT_YEARS"
  /\ genCall.outcome = "fatal"
  /\ "AUTHOR" \in DOMAIN REPLACEMENT_VALUES

\* C8: registerRunTimeReplacementValue fails for every name that is not a run-time
\* placeholder; a call that fails leaves REPLACEMENT_VALUES as it was; and no call changes
\* the cached value of a placeholder that is not a run-time placeholder.
C8_OnlyRunTimePlaceholdersRegister ==
  /\ ( genCall.op = "registerRunTimeReplacementValue" /\ ~RunTimePlaceholder(genCall.name) )
       => genCall.outcome = "fatal"
  /\ ( genCall.op = "registerRunTimeReplacementValue" /\ genCall.outcome # "returned" )
       => REPLACEMENT_VALUES = genCall.before
  /\ \A name \in SCHEMA_KEYS :
       ( ~RunTimePlaceholder(name) /\ name \in DOMAIN genCall.before )
       => ( name \in DOMAIN REPLACEMENT_VALUES
            /\ REPLACEMENT_VALUES[name] = genCall.before[name] )

\* A string was registered for AUTHOR while AUTHOR was cached.
C8_Witness ==
  /\ genCall.op = "registerRunTimeReplacementValue"
  /\ genCall.name = "AUTHOR"
  /\ genCall.arg.t = "string"
  /\ genCall.outcome = "fatal"
  /\ "AUTHOR" \in DOMAIN REPLACEMENT_VALUES

\* C9: getValue of a placeholder that was registered returns the value of the last
\* registration that went through.
C9_LastRegistrationWins ==
  ( genCall.op = "getValue" /\ genCall.name \in DOMAIN genCall.registered )
  => /\ genCall.outcome = "returned"
     /\ genCall.val = genCall.registered[genCall.name]

\* getValue returned the second registration, after it had returned the first.
C9_Witness ==
  /\ GetValueReturned
  /\ genCall.name = "COPYRIGHT_YEARS"
  /\ genCall.val # genCall.first["COPYRIGHT_YEARS"]

-----------------------------------------------------------------------------
(* Claims about UserConfig.parseNestedJSONValue (SpecConfig).              *)

\* Some segment of subpaths is absent at its level of config: walking down the own
\* properties, a segment is reached that the value at that level does not have.
RECURSIVE SegmentAbsent(_, _)
SegmentAbsent(value, subpaths) ==
  /\ subpaths # <<>>
  /\ \/ value.t # "object"
     \/ Head(subpaths) \notin DOMAIN value.kids
     \/ SegmentAbsent(value.kids[Head(subpaths)], Tail(subpaths))

MentionsEverySegment(msg, subpaths) ==
  \A i \in 1..Len(subpaths) : \E j \in 1..Len(msg) : msg[j] = subpaths[i]

\* C10: whenever some segment of the path is absent at its level, parseNestedJSONValue
\* fails with the fatal 'was not implemented correctly' error, whose message contains
\* every segment of the path, and in no other way.
C10_MissingPathIsStructuredError ==
  ( cfgCall.outcome # "none" /\ SegmentAbsent(PACKAGE_JSON, cfgInput.subpaths) )
  => /\ cfgCall.outcome = "fatal"
     /\ \E j \in 1..Len(cfgCall.err) :
          cfgCall.err[j] = " was not implemented correctly. It should have something like: "
     /\ MentionsEverySegment(cfgCall.err, cfgInput.subpaths)

StructuredError(err) ==
  \E j \in 1..Len(err) :
    err[j] = " was not implemented correctly. It should have something like: "

\* The value at the end of subpaths, every segment of which is an own property.
RECURSIVE ValueAt(_, _)
ValueAt(value, subpaths) ==
  IF subpaths = <<>> THEN value ELSE ValueAt(value.kids[Head(subpaths)], Tail(subpaths))

\* C11: parseNestedJSONValue returns a value only if it is a string or a number; when
\* every segment of the path exists and the value there is an object, an array, a boolean
\* or null, it fails with the same 'was not implemented correctly' error as for an absent
\* key; and no call changes the configuration object.
C11_ReturnsOnlyStringOrNumber ==
  /\ [] /\ cfgCall.outcome = "returned" => cfgCall.val.t \in { "string", "number" }
        /\ ( /\ cfgCall.outcome # "none"
             /\ ~SegmentAbsent(PACKAGE_JSON, cfgInput.subpaths)
             /\ ValueAt(PACKAGE_JSON, cfgInput.subpaths).t \notin { "string", "number" } )
           => ( /\ cfgCall.outcome = "fatal"
                /\ StructuredError(cfgCall.err)
                /\ MentionsEverySegment(cfgCall.err, cfgInput.subpaths) )
  /\ [][PACKAGE_JSON' = PACKAGE_JSON]_vars

\* A call whose two-segment path exists and ends at a value that is neither a string
\* nor a number.
C11_Witness ==
  /\ cfgCall.outcome # "none"
  /\ Len(cfgInput.subpaths) = 2
  /\ ~SegmentAbsent(PACKAGE_JSON, cfgInput.subpaths)
  /\ ValueAt(PACKAGE_JSON, cfgInput.subpaths).t \in { "null", "array", "boolean", "object" }
  /\ cfgCall.outcome = "fatal"

-----------------------------------------------------------------------------
(* Claims about the copyright statement (SpecStatement).                   *)

StatementReturned ==
  /\ lastCall.op \in { "generateCopyrightStatement", "getCopyrightString" }
  /\ lastCall.outcome = "returned"

\* The extension the statement of the last call was made for.
StatementExtension ==
  IF lastCall.op = "getCopyrightString" THEN lastCall.path
  ELSE getExtension(lastCall.path)

ForSupportedExtension ==
  Len(StatementExtension) = 1 /\ StatementExtension[1] \in EXTENSION_KEYS

\* The year of the date git printed, 0 when it printed nothing.
GitYear ==
  IF gitStdout = <<>> THEN 0 ELSE CHOOSE y \in Years : gitStdout[1] = ToString(y)

\* The years the statement of the last call is about.
StartYearOfCall ==
  IF lastCall.op = "getCopyrightString" THEN lastCall.args[1]
  ELSE IF GitYear = 0 THEN CURRENT_YEAR ELSE GitYear
EndYearOfCall ==
  IF lastCall.op = "getCopyrightString" THEN lastCall.args[2] ELSE CURRENT_YEAR

\* The text between 'Copyright © ' and the space before the author.
YearsShown(statement) ==
  SubSeq(statement, FirstIndexIn(statement, { "Copyright © " }) + 1,
         FirstIndexIn(statement, { " " }) - 1)

\* C12: for start year s and end year e with s <= e, the years string in the statement is
\* the decimal text of s when s = e, and s, '-', e when s < e.
C12_YearsString ==
  ( /\ StatementReturned
    /\ ForSupportedExtension
    /\ StartYearOfCall <= EndYearOfCall )
  => YearsShown(lastCall.val) =
       IF StartYearOfCall = EndYearOfCall
       THEN << ToString(StartYearOfCall) >>
       ELSE << ToString(StartYearOfCall), "-", ToString(EndYearOfCall) >>

\* A statement for a file checked in the year before this one.
C12_Witness ==
  /\ StatementReturned
  /\ lastCall.op = "generateCopyrightStatement"
  /\ ForSupportedExtension
  /\ GitYear # 0
  /\ GitYear < CURRENT_YEAR
  /\ YearsShown(lastCall.val) = << ToString(GitYear), "-", ToString(CURRENT_YEAR) >>

\* C13: the years of a statement generateCopyrightStatement returns are never a range
\* whose first year is later than its second year.
C13_StartYearNotAfterEndYear ==
  ( /\ StatementReturned
    /\ lastCall.op = "generateCopyrightStatement"
    /\ ForSupportedExtension )
  => \A s \in Years, e \in Years :
       YearsShown(lastCall.val) = << ToString(s), "-", ToString(e) >> => s <= e

\* C14: when git prints nothing for the file (it is not checked in, or the command
\* failed), generateCopyrightStatement of a supported file does not fail, and the
\* statement shows the one year Util.CURRENT_YEAR, start year and end year at once.
C14_NoGitDateFallsBackToCurrentYear ==
  ( /\ lastCall.op = "generateCopyrightStatement"
    /\ lastCall.path = filePath
    /\ ForSupportedExtension
    /\ gitInstalled
    /\ gitStdout = <<>> )
  => /\ lastCall.outcome = "returned"
     /\ StartYearOfCall = EndYearOfCall
     /\ YearsShown(lastCall.val) = << ToString(CURRENT_YEAR) >>

\* A statement was made for a stylesheet that git knows nothing of.
C14_Witness ==
  /\ StatementReturned
  /\ lastCall.op = "generateCopyrightStatement"
  /\ getExtension(lastCall.path) = << "css" >>
  /\ gitInstalled
  /\ gitStdout = <<>>

\* C15: the end year of the statement generateCopyrightStatement returns is the calendar
\* year at the time of the call.
C15_EndYearIsYearOfCall ==
  ( /\ StatementReturned
    /\ lastCall.op = "generateCopyrightStatement"
    /\ ForSupportedExtension )
  => YearsShown(lastCall.val)[Len(YearsShown(lastCall.val))] = ToString(lastCall.year)

\* C16: making a statement fails for every extension that is not one of the six keys of
\* EXTENSION_COMMENT_PARSER_MAP; no statement is returned for such an extension.
C16_UnsupportedExtensionFails ==
  ( /\ lastCall.op \in { "generateCopyrightStatement", "getCopyrightString" }
    /\ ~ForSupportedExtension )
  => lastCall.outcome = "fatal"

\* The comment the statement is to be for each extension.
CommentFor(ext, c) ==
  CASE ext = "js"                   -> << "// " >> \o c
    [] ext = "css"                  -> << "/* " >> \o c \o << " */" >>
    [] ext \in { "html", "md" }     -> << "<!-- " >> \o c \o << " -->" >>
    [] ext \in { "yml", "gitignore" } -> << "# " >> \o c

\* C17: for a supported file generateCopyrightStatement returns the comment of the file's
\* extension around 'Copyright © ' years ' ' AUTHOR '. All rights reserved.', years being
\* the start year, or start year '-' end year when they differ.
C17_StatementFormat ==
  ( /\ lastCall.op = "generateCopyrightStatement"
    /\ lastCall.path = filePath
    /\ gitInstalled
    /\ ForSupportedExtension )
  => /\ lastCall.outcome = "returned"
     /\ lastCall.val =
          CommentFor(StatementExtension[1],
                     << "Copyright © " >>
                     \o ( IF StartYearOfCall = EndYearOfCall
                          THEN << ToString(StartYearOfCall) >>
                          ELSE << ToString(StartYearOfCall), "-", ToString(EndYearOfCall) >> )
                     \o << " ", AUTHOR, ". All rights reserved." >>)

\* A statement was made for .gitignore, whose extension is the name after the dot.
C17_Witness ==
  /\ StatementReturned
  /\ lastCall.op = "generateCopyrightStatement"
  /\ lastCall.path = << ".", "gitignore" >>
  /\ lastCall.val[1] = "# "

-----------------------------------------------------------------------------
(* Claims about Generator.generateFile (SpecGenerateFile).                 *)

\* Where the token {{name}} stands in text.
Occurrences(text, name) ==
  { i \in 1..(Len(text) - 2) : text[i] = "{{" /\ text[i + 1] = name /\ text[i + 2] = "}}" }

\* The names between a start and an end delimiter in text.
TokenNames(text) ==
  { text[i + 1] : i \in { k \in 1..(Len(text) - 2) : text[k] = "{{" /\ text[k + 2] = "}}" } }

\* Every delimiter of text belongs to a token, and every token names a key of
\* REPLACEMENT_STRINGS_SCHEMA.
OnlySchemaTokens(text) ==
  /\ \A i \in 1..Len(text) :
       /\ text[i] = "{{" => ( i + 2 <= Len(text) /\ text[i + 2] = "}}" )
       /\ text[i] = "}}" => ( i > 2 /\ text[i - 2] = "{{" )
  /\ TokenNames(text) \subseteq SCHEMA_KEYS

HasDelimiterPair(text) ==
  \E i \in 1..Len(text) : \E j \in (i + 1)..Len(text) : text[i] = "{{" /\ text[j] = "}}"

\* C18: a token of the template whose name is no key of REPLACEMENT_STRINGS_SCHEMA causes
\* no error and stands in the written output as it stood in the template.
C18_UnknownTokensIgnored ==
  /\ ( /\ genCall.op = "generateFile"
       /\ TokenNames(templateFile) # {}
       /\ TokenNames(templateFile) \cap SCHEMA_KEYS = {} )
     => genCall.outcome = "returned"
  /\ ( genCall.op = "generateFile" /\ genCall.wrote )
     => \A name \in TokenNames(templateFile) \ SCHEMA_KEYS :
          Cardinality(Occurrences(outputFile[genCall.path].content, name))
            = Cardinality(Occurrences(templateFile, name))

RECURSIVE SubstitutedAtOnce(_, _)
SubstitutedAtOnce(text, values) ==
  IF text = <<>> THEN <<>>
  ELSE IF 1 \in Occurrences(text, text[2])
  THEN values[text[2]].s \o SubstitutedAtOnce(SubSeq(text, 4, Len(text)), values)
  ELSE << Head(text) >> \o SubstitutedAtOnce(Tail(text), values)

\* C20: the written output is the template with every token replaced by the value of
\* its name, the values themselves left as they are.
C20_LiteralSubstitution ==
  ( /\ genCall.op = "generateFile"
    /\ genCall.wrote
    /\ OnlySchemaTokens(templateFile) )
  => outputFile[genCall.path].content = SubstitutedAtOnce(templateFile, genCall.after)

\* The schema placeholders that occur in text as tokens: the names of
\* REPLACEMENT_STRINGS_SCHEMA among the matches of {{(.*?)}} in text, none when there is
\* no match.
PlaceholdersFound(inner) ==
  IF inner.outcome # "returned" THEN {}
  ELSE { str[1] : str \in Range(SelectSeq(inner.val, InSchema)) }
PlaceholdersIn(text) == PlaceholdersFound(getInnerDelimeterStrings(text, "{{", "}}"))

\* getValue returns for the placeholder name, in the run as it is after the last call.
Resolves(name) == getValueFrom(genCall.after, name).r.outcome = "returned"

\* C23: generateFile resolves and validates only the schema placeholders that occur in
\* the template: it puts no value of another placeholder into REPLACEMENT_VALUES (but
\* for COPYRIGHT_YEARS, which it registers), and it succeeds whenever every placeholder
\* that occurs in the template resolves, whatever package.json lacks for the others.
C23_LazyValidation ==
  genCall.op = "generateFile" =>
    /\ (DOMAIN genCall.after \ DOMAIN genCall.before)
         \subseteq PlaceholdersIn(templateFile) \cup { "COPYRIGHT_YEARS" }
    /\ (\A name \in PlaceholdersIn(templateFile) : Resolves(name))
         => genCall.outcome = "returned"

\* The resolution of the placeholder name fails as the code makes it fail: in the fatal
\* error of a missing path of package.json or of a run-time value that was not
\* registered.
FailsToResolve(name) == getValueFrom(genCall.after, name).r.outcome = "fatal"

\* C27: a generateFile in which the resolution of a placeholder of the template fails
\* (a missing path of package.json, a run-time value that was not registered) ends the
\* run in an error, the fatal error of that resolution when no other placeholder fails
\* otherwise; it has written nothing, and every output file is as it was before the call.
C27_NoPartialOutput ==
  ( /\ genCall.op = "generateFile"
    /\ \E name \in PlaceholdersIn(templateFile) : FailsToResolve(name) )
  => /\ genCall.outcome # "returned"
     /\ exited
     /\ ~genCall.wrote
     /\ outputFile = genCall.outputBefore
     /\ (\A name \in PlaceholdersIn(templateFile) : Resolves(name) \/ FailsToResolve(name))
          => genCall.outcome = "fatal"

\* A generateFile that replaced one placeholder and failed at a later one, on an output
\* file that existed: the file still has its old content.
C27_Witness ==
  /\ genCall.op = "generateFile"
  /\ genCall.outcome = "fatal"
  /\ \E name \in PlaceholdersIn(templateFile) \ { "COPYRIGHT_YEARS" } :
       Resolves(name) /\ name \in DOMAIN genCall.after
  /\ \E name \in PlaceholdersIn(templateFile) : FailsToResolve(name)
  /\ outputFile[genCall.path] = [ exists |-> TRUE, content |-> << "# old" >> ]

\* C28: generateFile on a template without any delimiter pair, so without any token,
\* completes without error and writes the template text as the output.
C28_TemplateWithoutTokens ==
  ( genCall.op = "generateFile" /\ ~HasDelimiterPair(templateFile) )
  => /\ genCall.outcome = "returned"
     /\ genCall.wrote
     /\ outputFile[genCall.path] = [ exists |-> TRUE, content |-> templateFile ]

-----------------------------------------------------------------------------
(* Claims about a run of generate tasks (SpecRun).                         *)

\* The value getValue computes for a placeholder of package.json: the value at the path
\* of the schema, with the parse of the schema applied when it has one.
Resolved(name) ==
  parseNestedJSONValue(PACKAGE_JSON, "PACKAGE_JSON",
                       REPLACEMENT_STRINGS_SCHEMA[name].path, << name >>)
Parsed(name) ==
  IF REPLACEMENT_STRINGS_SCHEMA[name].kind = "parse"
  THEN ApplyParse(REPLACEMENT_STRINGS_SCHEMA[name].parse, Resolved(name).val)
  ELSE Resolved(name)

PackageJsonSourced == { name \in SCHEMA_KEYS : REPLACEMENT_STRINGS_SCHEMA[name].kind # "null" }

\* C24: within one run, whatever the number of getValue calls and of generated files,
\* UserConfig.parseNestedJSONValue and the parse of the schema are called at most once
\* for each placeholder of package.json, and the cached value of such a placeholder is
\* the parse applied to the value at its path: REPO_TITLE is toTitleCase of the name.
C24_ResolvedOnce ==
  /\ genCall.retraversed = {}
  /\ genCall.retransformed = {}
  /\ \A name \in PackageJsonSourced \cap DOMAIN REPLACEMENT_VALUES :
       /\ name \in genCall.traversed
       /\ REPLACEMENT_STRINGS_SCHEMA[name].kind = "parse" => name \in genCall.transformed
       /\ Parsed(name) = ReturnedValue(REPLACEMENT_VALUES[name])
  /\ ( "REPO_TITLE" \in DOMAIN REPLACEMENT_VALUES /\ PACKAGE_JSON = PackageA )
     => REPLACEMENT_VALUES["REPO_TITLE"] = Str(<< "Grunt", " ", "Config" >>)

\* A second file is generated from a template with REPO_TITLE in it, after a getValue
\* for REPO_TITLE and a first file: the value comes from the cache.
C24_Witness ==
  /\ genCall.op = "generateFile"
  /\ genCall.outcome = "returned"
  /\ genCall.prevOp = "generateFile"
  /\ "REPO_TITLE" \in PlaceholdersIn(templateFile)
  /\ "REPO_TITLE" \in DOMAIN genCall.before
  /\ "REPO_TITLE" \in DOMAIN genCall.first
  /\ \A p \in OutputPaths : outputFile[p].exists

\* REPLACEMENT_VALUES with the years of the file at outputFilePath as COPYRIGHT_YEARS.
WithYearsOf(values, outputFilePath) ==
  MapPut(values, "COPYRIGHT_YEARS", Str(computeCopyrightYears(outputFilePath)))

\* C26: in any sequence of generateFile calls of a run, the output written for
\* outputFilePath has the COPYRIGHT_YEARS computed for outputFilePath in that call put
\* in for its tokens, and REPLACEMENT_VALUES holds that value after the call, whatever
\* an earlier generateFile for another file had left there.
C26_YearsOfThisFile ==
  ( genCall.op = "generateFile" /\ genCall.wrote )
  => /\ genCall.after = WithYearsOf(genCall.after, genCall.path)
     /\ outputFile[genCall.path].content
          = SubstitutedAtOnce(templateFile, WithYearsOf(genCall.after, genCall.path))

\* .travis.yml, which git has no date for, is generated from a template with
\* COPYRIGHT_YEARS after README.md, whose years are a range: the range was in
\* REPLACEMENT_VALUES before the call, the single year is written.
C26_Witness ==
  /\ genCall.op = "generateFile"
  /\ genCall.wrote
  /\ genCall.prevOp = "generateFile"
  /\ genCall.path = TravisPath
  /\ "COPYRIGHT_YEARS" \in PlaceholdersIn(templateFile)
  /\ "COPYRIGHT_YEARS" \in DOMAIN genCall.before
  /\ genCall.before["COPYRIGHT_YEARS"] = Str(computeCopyrightYears(OutputPath))
  /\ genCall.before["COPYRIGHT_YEARS"] # Str(computeCopyrightYears(TravisPath))
  /\ outputFile[OutputPath].exists

-----------------------------------------------------------------------------
(* Claims about the eslint rule (SpecLint).                                *)

\* shouldStartNewGroup( node, previousNode ) and isSorted( ary ) of the rule that groups
\* a statement with the statements after it: the groups of consecutive require
\* statements, and the order without regard to case.
shouldStartNewGroup(node, previousNode) ==
  \/ previousNode = NoNode
  \/ node.parent # previousNode.parent
  \/ node.line - previousNode.line # 1

isSorted(ary) ==
  \A idx \in 1..Len(ary) :
    idx = 1 \/ ~StringLess(ToLowerCasePiece(ary[idx]), ToLowerCasePiece(ary[idx - 1]))

RECURSIVE GroupedFrom(_, _, _)
GroupedFrom(nodes, groups, previousNode) ==
  IF nodes = <<>> THEN groups
  ELSE IF ~Head(nodes).require THEN GroupedFrom(Tail(nodes), groups, previousNode)
  ELSE IF shouldStartNewGroup(Head(nodes), previousNode)
  THEN GroupedFrom(Tail(nodes), Append(groups, << Head(nodes) >>), Head(nodes))
  ELSE GroupedFrom(Tail(nodes),
                   [ groups EXCEPT ![Len(groups)] = Append(@, Head(nodes)) ],
                   Head(nodes))

ConsecutiveGroups(nodes) == GroupedFrom(nodes, <<>>, NoNode)
NamesOf(group) == [ i \in 1..Len(group) |-> group[i].name ]

\* C29: at the end of the file the groups of the rule are the groups of consecutive
\* require statements (same parent, each one line after the one before), and the rule
\* has reported exactly the groups whose variable names are not in ascending order
\* without regard to case: a statement that starts a group is compared with no statement
\* of the group before.
C29_GroupsOfConsecutiveStatements ==
  visited > Len(program) =>
    /\ requireStatementGroups = ConsecutiveGroups(program)
    /\ Range(reports)
         = { Loc(group) : group \in { g \in Range(ConsecutiveGroups(program)) :
                                        ~isSorted(NamesOf(g)) } }

-----------------------------------------------------------------------------
(* Claims about the task functions of Util.wrapAsync (SpecAsync).          *)

\* The places of event in the events of the task function that was called last.
Places(event) == { i \in 1..Len(asyncRun.events) : asyncRun.events[i] = event }

\* C30: a task function of Util.wrapAsync calls done at most once, and only after the
\* promise of the async task has settled; when the promise is rejected the fatal error
\* 'Task failed' is raised after that and done is not called before it.
C30_DoneOnceAfterSettled ==
  /\ Cardinality(Places("done")) <= 1
  /\ \A d \in Places("done") : \E s \in Places("settled") : s < d
  /\ Places("done") # {} => asyncRun.promise = "fulfilled"
  /\ ( asyncRun.promise = "rejected" /\ asyncRun.pc # "awaiting" )
     => /\ exited
        /\ \E f \in Places("fatal: Task failed") : \E s \in Places("settled") : s < f
  /\ \A f \in Places("fatal: Task failed") : \A d \in Places("done") : f < d

\* The last task function of a run has ended in the fatal error after the promise of its
\* task was rejected, without a call of done.
C30_Witness ==
  /\ asyncRun.pc = "failed"
  /\ asyncRun.promise = "rejected"
  /\ asyncRun.events = << "async", "asyncTask", "settled", "fatal: Task failed" >>
  /\ asyncTasks = <<>>
  /\ exited

-----------------------------------------------------------------------------
(* Claims about the calls on a directory.                                  *)

DirectoryWide ==
  /\ treeCall.op \in { "updateAllCopyrights", "checkAllCopyrights", "updateCopyright",
                       "checkCopyright" }
  /\ treeCall.path = Directory

\* A directory-wide call failed at a file: the last file of its log.
FailedAtFile ==
  DirectoryWide /\ treeCall.outcome = "fatal" /\ treeCall.log # <<>>

\* C21: a directory-wide update or check goes through the files one after the other and
\* rolls nothing back: when the call fails at file N, the files before N have been
\* handled in their order without a failure and keep the content their own update (or
\* check) left, and no file after N has been read or written.
C21_BatchStopsAtFailure ==
  FailedAtFile =>
    LET n == Len(treeCall.log)
    IN  /\ n <= Len(treeCall.before)
        /\ Len(tree) = Len(treeCall.before)
        /\ treeCall.log[n].outcome = "fatal"
        /\ \A i \in 1..n : treeCall.log[i].path = treeCall.before[i].path
        /\ \A i \in 1..(n - 1) :
             /\ treeCall.log[i].outcome = "returned"
             /\ tree[i].content =
                  Callback(treeCall.op, treeCall.before[i], treeCall.forceWrite).content
        /\ \A i \in (n + 1)..Len(tree) : tree[i] = treeCall.before[i]

\* An update of a directory failed at its second file, after it had written the first
\* one, and before a third file that it would have written.
C21_Witness ==
  /\ FailedAtFile
  /\ treeCall.op = "updateAllCopyrights"
  /\ Len(treeCall.log) = 2
  /\ Len(tree) = 3
  /\ treeCall.log[1].wrote
  /\ tree[1].content # treeCall.before[1].content
  /\ Callback(treeCall.op, treeCall.before[3], treeCall.forceWrite).wrote
  /\ tree[3] = treeCall.before[3]

\* The first line of the file is the copyright statement generateCopyrightStatement
\* makes for it.
FirstLineCorrect(file) ==
  /\ generateCopyrightStatementOf(file.path, TRUE, file.stdout).outcome = "returned"
  /\ getFileLines(file.content)[1] = generateCopyrightStatementOf(file.path, TRUE, file.stdout).val

\* C22: checkCopyright( path ) only checks: it writes to no file; for a file whose first
\* line is not the correct copyright statement it fails; for a directory it fails when
\* the first line of one of the files it checks is not the correct statement.
C22_CheckCopyrightOnlyChecks ==
  treeCall.op = "checkCopyright" =>
    /\ tree = treeCall.before
    /\ \A i \in 1..Len(treeCall.before) :
         (treeCall.path = treeCall.before[i].path /\ ~FirstLineCorrect(treeCall.before[i]))
           => treeCall.outcome = "fatal"
    /\ (/\ treeCall.path = Directory
        /\ \E i \in 1..Len(treeCall.before) :
             /\ ~ignores(treeCall.before[i].path)
             /\ ExtensionInMap(treeCall.before[i].path)
             /\ ~FirstLineCorrect(treeCall.before[i]))
         => treeCall.outcome = "fatal"

\* The extension of the path is one of the keys of EXTENSION_COMMENT_PARSER_MAP.
ExtensionIsKey(p) == Len(getExtension(p)) = 1 /\ getExtension(p)[1] \in EXTENSION_KEYS

\* C25: updateCopyright on a directory writes a file only if IGNORE_PATTERN does not
\* match it and its extension is a key of EXTENSION_COMMENT_PARSER_MAP; every other file
\* it comes to is left as it was and raises no error.
C25_WritesOnlySupportedFiles ==
  ( treeCall.op = "updateCopyright" /\ treeCall.path = Directory ) =>
    \A i \in 1..Len(treeCall.log) :
      ( ignores(treeCall.before[i].path) \/ ~ExtensionIsKey(treeCall.before[i].path) )
        => /\ ~treeCall.log[i].wrote
           /\ tree[i] = treeCall.before[i]
           /\ treeCall.log[i].outcome = "returned"
====
